---- MODULE Spec2Model ----
(***************************************************************************)
(* Verification model of the mdfh ingestion data plane: the SPSC ring      *)
(* buffer (src/src/ring_buffer.cpp), the streaming record parser and the   *)
(* statistics engine (src/src/ingestion.cpp), the zero-copy pending-packet *)
(* pool (src/src/kernel_bypass.cpp) and the multi-feed fan-in              *)
(* (src/src/multi_feed_ingestion.cpp).                                     *)
(***************************************************************************)
EXTENDS Integers, Sequences, FiniteSets, TLC

(***************************************************************************)
(* Bounds of the model.                                                    *)
(***************************************************************************)
\* log2 of the largest ring capacity constructed
CapacityBits == 2
\* width of the write/read counters (std::uint64_t in the source)
CounterBits == 4
\* number of try_push calls the producer thread makes
MaxPush == 9

RECURSIVE Pow2(_)
Pow2(n) == IF n = 0 THEN 1 ELSE 2 * Pow2(n - 1)

CounterMod == Pow2(CounterBits)

\* unsigned addition and subtraction of the counter type
UAdd(a, b) == (a + b) % CounterMod
USubNoWrap(a, b) == a - b
USub(a, b) == (a - b + CounterMod) % CounterMod

RECURSIVE BitAnd(_, _)
BitAnd(a, b) ==
    IF a = 0 \/ b = 0 THEN 0
    ELSE (a % 2) * (b % 2) + 2 * BitAnd(a \div 2, b \div 2)

Min(a, b) == IF a <= b THEN a ELSE b
Max(a, b) == IF a >= b THEN a ELSE b

(***************************************************************************)
(* State.                                                                  *)
(***************************************************************************)
VARIABLES
    \* RingBuffer members
    slots_, write_pos_, read_pos_, high_water_mark_, capacity_,
    \* producer thread inside try_push: position and locals
    p_pc, p_write, p_read, p_slot,
    \* consumer thread inside try_pop: position and locals
    c_pc, c_read, c_write, c_slot,
    \* observation: slots accepted by try_push, slots returned by try_pop,
    \* number of try_push calls made, number of rejected calls
    pushed, popped, calls, rejected,
    \* the last operation made in the sequential specifications, and the
    \* ring before, the arguments and the result of the last bulk call
    last_op, bulk_before, bulk_in, bulk_ret,
    \* whether the last bulk call was given a null pointer, its count
    \* argument, and the slots the last try_pop_bulk wrote to its output
    bulk_null, bulk_count, bulk_out,
    \* the byte stream of the peer, the bytes delivered so far, the parser's
    \* carry, and the progress of the 13/13/14 delivery
    stream, fed, partial_buffer_, split_seen,
    \* IngestionStats members
    messages_received_, messages_processed_, messages_dropped_,
    bytes_received_, first_message_seen_, expected_seq_, gap_count_,
    latency_buckets_,
    \* the monotonic clock read by get_timestamp_ns and the records handed to
    \* process_complete_message
    clock, emitted,
    \* the percentile last asked of calculate_percentile and its result
    pct_p, pct_ret,
    \* IngestionStats::last_flush_, on the scale of clock
    last_flush_,
    \* the kernel-bypass driver: which backend bypass_client_ is, running_,
    \* the reception thread's position, packets_received_, bytes_received_,
    \* the tokens handed to the packet handler and the tokens passed to
    \* release_packet, in order, and the number of bursts received
    backend, running_, rx_pc, packets_received_, client_bytes_received_,
    delivered, release_calls, bursts,
    \* the driver's packet_handler_ (NULL when empty), the reception threads
    \* started and joined so far, the calls made on the driver directly, and
    \* whether the socket of the reference driver's NetworkClient is open
    packet_handler_, reception_threads, driver_calls,
    asio_socket_open,
    \* BypassIngestionClient: enable_zero_copy, the pending pool, and the
    \* main thread's position in start_ingestion / stop_ingestion
    enable_zero_copy, pending_packets_, pending_write_pos_, pending_read_pos_,
    m_pc,
    \* MPSCRingBuffer members of the global buffer
    mpsc_slots_, mpsc_write_pos_, mpsc_read_pos_, mpsc_capacity_,
    \* per feed worker: the bytes its I/O thread has read, its parser's carry,
    \* its local ring, the counters of its statistics adapter, its
    \* FeedMonitor
    feed_fed, feed_partial_buffer_, local_buffer_, adapter_stats, monitor_,
    \* per feed worker, inside process_local_messages: position, the slot
    \* being pushed, and the write position try_push loaded
    \* and the number of its try_push calls that returned true
    w_pc, w_slot, w_write, forwarded,
    \* the consumer inside MPSCRingBuffer::try_pop: position, the read
    \* position loaded and the slot being copied out
    gc_pc, gc_read, gc_slot,
    \* MultiFeedIngestionBenchmark::messages_processed_ and the slots the
    \* consumer got, in order
    bench_messages_processed_, consumed,
    \* the steady clock in milliseconds, the health monitor thread's position
    \* in its pass (the feed to check next, or the number of feeds when
    \* promote_backup_feeds comes next, -1 without a monitor), per feed the
    \* elapsed time its last check_health computed, and the feeds named by
    \* the last promote_backup_feeds
    now_ms, hm_pc, health_age, promoted,
    \* the status check_health has loaded, between its load and its store
    \* ("none" outside check_health)
    hm_current,
    \* per feed worker, the position of its thread in worker_loop
    worker_pc,
    \* IngestionBenchmark::run: the main thread's position, the I/O thread's
    \* position in run_io_loop, NetworkClient::should_stop_,
    \* socket_.is_open(), whether the peer has closed the connection,
    \* config_.max_messages, config_.max_seconds and stats_.elapsed_seconds()
    run_pc, io_pc, should_stop_, socket_open, peer_closed,
    max_messages, max_seconds, elapsed_seconds,
    \* the producer inside try_push_or_block: its position, the mode and
    \* timeout_ns it was given, its start_time, the number of pushes it has
    \* tried and what it returned
    block_call,
    \* the largest value write_pos_ - read_pos_ has had since construction
    largest_size,
    \* the reception thread inside BoostAsioBypassClient::reception_loop: its
    \* position, its locals connected, socket and last_reconnect_attempt, the
    \* number of calls of connect_to_server it has made, the time of the last
    \* one, and packets_received_ at its last successful reconnect (-1 before)
    rloop,
    \* per FeedWorker: should_stop_, its client's should_stop_,
    \* worker_thread_.joinable(), the position of the thread calling start
    \* and stop, the numbers of live worker threads and I/O threads, the
    \* position of the I/O thread, the number of start calls made and
    \* whether stop has returned since the last start
    fw

ringVars == <<slots_, write_pos_, read_pos_, high_water_mark_, capacity_,
              largest_size>>
prodVars == <<p_pc, p_write, p_read, p_slot>>
consVars == <<c_pc, c_read, c_write, c_slot>>
obsVars  == <<pushed, popped, calls, rejected>>

bulkVars == <<last_op, bulk_before, bulk_in, bulk_ret, bulk_null, bulk_count,
             bulk_out>>

parserVars == <<stream, fed, partial_buffer_, split_seen>>
statsVars == <<messages_received_, messages_processed_, messages_dropped_,
               bytes_received_, first_message_seen_, expected_seq_, gap_count_,
               latency_buckets_>>
ingestObs == <<clock, emitted>>
histVars == <<pct_p, pct_ret, last_flush_>>
lifeVars == <<packet_handler_, reception_threads, driver_calls,
              asio_socket_open>>
driverVars == <<backend, running_, rx_pc, packets_received_,
                client_bytes_received_, delivered, release_calls, bursts,
                lifeVars>>
poolVars == <<enable_zero_copy, pending_packets_, pending_write_pos_,
              pending_read_pos_, m_pc>>
bypassVars == <<driverVars, poolVars>>
mpscVars == <<mpsc_slots_, mpsc_write_pos_, mpsc_read_pos_, mpsc_capacity_>>
feedVars == <<feed_fed, feed_partial_buffer_, local_buffer_, adapter_stats,
              monitor_>>
workerVars == <<w_pc, w_slot, w_write, forwarded>>
fanConsVars == <<gc_pc, gc_read, gc_slot, bench_messages_processed_, consumed>>
healthVars == <<now_ms, hm_pc, health_age, promoted, hm_current>>
startVars == <<worker_pc>>
fanVars == <<mpscVars, feedVars, workerVars, fanConsVars, healthVars,
             startVars>>
poolVars_but_pc == <<enable_zero_copy, pending_packets_, pending_write_pos_,
                     pending_read_pos_>>
runVars == <<run_pc, io_pc, should_stop_, socket_open, peer_closed,
             max_messages, max_seconds, elapsed_seconds>>

blockVars == <<block_call>>
reconnectVars == <<rloop>>
feedLifeVars == <<fw>>

vars == <<ringVars, prodVars, consVars, obsVars, bulkVars, parserVars,
          statsVars, ingestObs, histVars, bypassVars, fanVars, runVars,
          blockVars,
          reconnectVars, feedLifeVars>>

\* what the two-thread ring specification leaves alone
notRing == <<bulkVars, parserVars, statsVars, ingestObs, histVars, bypassVars,
             fanVars, runVars, blockVars,
             reconnectVars, feedLifeVars>>
\* what the single-threaded ring specification leaves alone
notBulk == <<prodVars, consVars, parserVars, statsVars, ingestObs, histVars,
             bypassVars, fanVars, runVars, blockVars,
             reconnectVars, feedLifeVars>>

(***************************************************************************)
(* RingBuffer (SPSC)                                                       *)
(***************************************************************************)
\* is_power_of_two
is_power_of_two(value) == value > 0 /\ BitAnd(value, value - 1) = 0

\* the largest capacity validate_capacity admits (1ULL << 32 in the source,
\* below the range of the counters)
MaxCapacity == Pow2(CapacityBits)

\* the capacities for which validate_capacity does not throw
validate_capacity(capacity) ==
    /\ ~(capacity = 0)
    /\ is_power_of_two(capacity)
    /\ ~(capacity > MaxCapacity)

mask_ == capacity_ - 1

\* Slot(): raw(), rx_ts(0)
DefaultSlot == [raw |-> 0, rx_ts |-> 0]
\* Slot(message, timestamp)
MakeSlot(message, timestamp) == [raw |-> message, rx_ts |-> timestamp]

\* (write - read) >= capacity_
RingFullOffByOne(write, read) == USub(write, read) > capacity_
RingFull(write, read) == USub(write, read) >= capacity_

\* read == write
RingEmptyNever(read, write) == FALSE
RingEmpty(read, write) == read = write

\* slots_[pos & mask_]
CellIndex(pos) == BitAnd(pos, mask_)

\* the gated high-water-mark update at the end of a push
HwmAfterUngated(hwm, new_write, read) == USub(new_write, read)
HwmAfter(hwm, new_write, read) ==
    LET current_size == USub(new_write, read)
    IN  IF current_size > hwm THEN current_size ELSE hwm

RingInit ==
    /\ capacity_ \in {c \in 0 .. MaxCapacity + 1 : validate_capacity(c)}
    /\ slots_ = [i \in 0 .. capacity_ - 1 |-> DefaultSlot]
    /\ write_pos_ = 0
    /\ read_pos_ = 0
    /\ high_water_mark_ = 0
    /\ largest_size = 0

\* no call of try_push_or_block is under way
NoBlockCall ==
    [pc |-> "idle", mode |-> "DROP", timeout_ns |-> 0, start_time |-> 0,
     tries |-> 0, ret |-> FALSE]

\* a FeedWorker after its constructor
ConstructedWorker ==
    [should_stop_ |-> FALSE, client_should_stop_ |-> FALSE, joinable |-> FALSE,
     ctl |-> "idle", worker_threads |-> 0, io_threads |-> 0, io_pc |-> "none",
     starts |-> 0, stopped |-> FALSE]

\* reception_loop has not been entered
NoReceptionLoop ==
    [pc |-> "entry", connected |-> FALSE, socket |-> "null",
     last_reconnect_attempt |-> 0, attempts |-> 0, attempt_at |-> 0,
     packets_at_reconnect |-> -1]

ThreadsIdle ==
    /\ p_pc = "idle" /\ p_write = 0 /\ p_read = 0 /\ p_slot = DefaultSlot
    /\ c_pc = "idle" /\ c_read = 0 /\ c_write = 0 /\ c_slot = DefaultSlot
    /\ block_call = NoBlockCall
    /\ rloop = NoReceptionLoop

ObsInit ==
    /\ pushed = <<>> /\ popped = <<>> /\ calls = 0 /\ rejected = 0

BulkIdle ==
    /\ last_op = "none" /\ bulk_before = <<>> /\ bulk_in = <<>> /\ bulk_ret = 0
    /\ bulk_null = FALSE /\ bulk_count = 0 /\ bulk_out = <<>>

\* no parser and no statistics object exist
ParserAbsent ==
    /\ stream = <<>> /\ fed = 0 /\ partial_buffer_ = <<>> /\ split_seen = 0
    /\ clock = 0 /\ emitted = <<>>

\* calculate_percentile has not been called
HistIdle == pct_p = <<>> /\ pct_ret = 0 /\ last_flush_ = 0

\* IngestionBenchmark::run has not been called
RunAbsent ==
    /\ run_pc = "none" /\ io_pc = "none"
    /\ should_stop_ = FALSE /\ socket_open = FALSE /\ peer_closed = FALSE
    /\ max_messages = 0 /\ max_seconds = 0 /\ elapsed_seconds = 0

\* no kernel-bypass client exists
BypassAbsent ==
    /\ backend = "none" /\ running_ = FALSE /\ rx_pc = "none"
    /\ packets_received_ = 0 /\ client_bytes_received_ = 0
    /\ delivered = <<>> /\ release_calls = <<>> /\ bursts = 0
    /\ packet_handler_ = 0 /\ reception_threads = 0
    /\ driver_calls = <<>> /\ asio_socket_open = FALSE
    /\ enable_zero_copy = FALSE /\ pending_packets_ = <<>>
    /\ pending_write_pos_ = 0 /\ pending_read_pos_ = 0 /\ m_pc = "none"

\* no fan-in dispatcher exists
FanInAbsent ==
    /\ mpsc_slots_ = <<>> /\ mpsc_write_pos_ = 0 /\ mpsc_read_pos_ = 0
    /\ mpsc_capacity_ = 0
    /\ feed_fed = <<>> /\ feed_partial_buffer_ = <<>> /\ local_buffer_ = <<>>
    /\ adapter_stats = <<>> /\ monitor_ = <<>>
    /\ w_pc = <<>> /\ w_slot = <<>> /\ w_write = <<>> /\ forwarded = <<>>
    /\ now_ms = 0 /\ hm_pc = -1 /\ health_age = <<>> /\ promoted = {}
    /\ hm_current = "none"
    /\ worker_pc = <<>> /\ fw = <<>>
    /\ gc_pc = "none" /\ gc_read = 0 /\ gc_slot = <<>>
    /\ bench_messages_processed_ = 0 /\ consumed = <<>>

StatsAbsent ==
    /\ messages_received_ = 0 /\ messages_processed_ = 0
    /\ messages_dropped_ = 0 /\ bytes_received_ = 0
    /\ first_message_seen_ = FALSE /\ expected_seq_ = 0 /\ gap_count_ = 0
    /\ latency_buckets_ = <<>>

(***************************************************************************)
(* try_push, one atomic access per step.  The producer is the only writer  *)
(* of write_pos_ and high_water_mark_, so its load of write_pos_ is taken  *)
(* together with the acquire load of read_pos_.                            *)
(***************************************************************************)
\* the call, the two loads and the full test
PushBegin ==
    /\ p_pc = "idle"
    /\ calls < MaxPush
    /\ calls' = calls + 1
    /\ p_slot' = MakeSlot(calls + 1, calls + 1)
    /\ p_write' = write_pos_
    /\ p_read' = read_pos_
    /\ IF RingFull(write_pos_, read_pos_)
       THEN /\ p_pc' = "idle"
            /\ rejected' = rejected + 1
       ELSE /\ p_pc' = "store_raw"
            /\ UNCHANGED rejected
    /\ UNCHANGED <<ringVars, consVars, pushed, popped, notRing>>

\* slots_[write & mask_] = slot, first member
PushStoreRaw ==
    /\ p_pc = "store_raw"
    /\ slots_' = [slots_ EXCEPT ![CellIndex(p_write)].raw = p_slot.raw]
    /\ p_pc' = "store_ts"
    /\ UNCHANGED <<capacity_, write_pos_, read_pos_, high_water_mark_, largest_size,
                   p_write, p_read, p_slot, consVars, obsVars, notRing>>

\* slots_[write & mask_] = slot, second member
PushStoreTs ==
    /\ p_pc = "store_ts"
    /\ slots_' = [slots_ EXCEPT ![CellIndex(p_write)].rx_ts = p_slot.rx_ts]
    /\ p_pc' = "store_write"
    /\ UNCHANGED <<capacity_, write_pos_, read_pos_, high_water_mark_, largest_size,
                   p_write, p_read, p_slot, consVars, obsVars, notRing>>

\* write_pos_.store(write + 1, release)
PushStoreWrite ==
    /\ p_pc = "store_write"
    /\ write_pos_' = UAdd(p_write, 1)
    /\ largest_size' = Max(largest_size, USub(UAdd(p_write, 1), read_pos_))
    /\ pushed' = Append(pushed, p_slot)
    /\ p_pc' = "hwm"
    /\ UNCHANGED <<capacity_, slots_, read_pos_, high_water_mark_,
                   p_write, p_read, p_slot, consVars, popped, calls, rejected, notRing>>

\* the high-water-mark update and return true
PushHwm ==
    /\ p_pc = "hwm"
    /\ high_water_mark_' = HwmAfter(high_water_mark_, UAdd(p_write, 1), p_read)
    /\ p_pc' = "idle"
    /\ UNCHANGED <<capacity_, slots_, write_pos_, read_pos_, largest_size,
                   p_write, p_read, p_slot, consVars, obsVars, notRing>>

(***************************************************************************)
(* try_pop, one atomic access per step.                                    *)
(***************************************************************************)
\* the call, the two loads and the empty test
PopBegin ==
    /\ c_pc = "idle"
    /\ Len(popped) < MaxPush
    /\ c_read' = read_pos_
    /\ c_write' = write_pos_
    /\ c_pc' = IF RingEmpty(read_pos_, write_pos_) THEN "idle" ELSE "load_raw"
    /\ UNCHANGED <<ringVars, prodVars, c_slot, obsVars, notRing>>

\* slot = slots_[read & mask_], first member
PopLoadRaw ==
    /\ c_pc = "load_raw"
    /\ c_slot' = [c_slot EXCEPT !.raw = slots_[CellIndex(c_read)].raw]
    /\ c_pc' = "load_ts"
    /\ UNCHANGED <<ringVars, prodVars, c_read, c_write, obsVars, notRing>>

\* slot = slots_[read & mask_], second member
PopLoadTs ==
    /\ c_pc = "load_ts"
    /\ c_slot' = [c_slot EXCEPT !.rx_ts = slots_[CellIndex(c_read)].rx_ts]
    /\ c_pc' = "store_read"
    /\ UNCHANGED <<ringVars, prodVars, c_read, c_write, obsVars, notRing>>

\* read_pos_.store(read + 1, release) and return true
PopStoreRead ==
    /\ c_pc = "store_read"
    /\ read_pos_' = UAdd(c_read, 1)
    /\ popped' = Append(popped, c_slot)
    /\ c_pc' = "idle"
    /\ UNCHANGED <<capacity_, slots_, write_pos_, high_water_mark_, largest_size,
                   prodVars,
                   c_read, c_write, c_slot, pushed, calls, rejected, notRing>>

Init ==
    /\ RingInit /\ ThreadsIdle /\ ObsInit /\ BulkIdle
    /\ ParserAbsent /\ StatsAbsent /\ HistIdle /\ RunAbsent /\ BypassAbsent /\ FanInAbsent

Next ==
    \/ PushBegin
    \/ PushStoreRaw
    \/ PushStoreTs
    \/ PushStoreWrite
    \/ PushHwm
    \/ PopBegin
    \/ PopLoadRaw
    \/ PopLoadTs
    \/ PopStoreRead

Spec == Init /\ [][Next]_vars

(***************************************************************************)
(* Properties of the SPSC ring.                                            *)
(***************************************************************************)
IsPrefix(s, t) ==
    /\ Len(s) <= Len(t)
    /\ \A i \in 1 .. Len(s) : s[i] = t[i]

\* C1: with one producer in try_push and one consumer in try_pop, under
\* every interleaving the slots returned by try_pop are a prefix of the
\* slots accepted by try_push (nothing lost, duplicated, reordered or torn).
C1_SpscFifo == IsPrefix(popped, pushed)

\* the consumer has popped more slots than the ring has cells while the
\* producer is in the middle of writing a cell
C1_Witness ==
    /\ Len(popped) > capacity_
    /\ p_pc = "store_ts"
    /\ c_pc = "idle"

\* C2: try_push only completes when fewer than capacity slots are held,
\* try_pop only completes when at least one slot is held, and the held
\* count write - read stays within 0 .. capacity.
C2_Capacity ==
    /\ USub(write_pos_, read_pos_) = Len(pushed) - Len(popped)
    /\ Len(pushed) - Len(popped) >= 0
    /\ Len(pushed) - Len(popped) <= capacity_
    /\ p_pc = "store_write" => Len(pushed) - Len(popped) < capacity_
    /\ c_pc = "store_read" => Len(pushed) - Len(popped) > 0

\* a push was rejected on a full ring and a pop was refused on an empty one
C2_Witness ==
    /\ rejected > 0
    /\ Len(pushed) - Len(popped) = capacity_
    /\ Len(popped) > 0

\* C29: high_water_mark never decreases, never exceeds capacity, and
\* whenever no push is in progress it is at least the largest value that
\* write - read has ever had.
C29_HighWaterMark ==
    /\ [][high_water_mark_' >= high_water_mark_]_vars
    /\ [](high_water_mark_ <= capacity_)
    /\ [](p_pc = "idle" => high_water_mark_ >= largest_size)

\* no push is in progress and the mark is above every size the ring has
\* had: the consumer popped between the producer's load of read_pos_ and its
\* store of write_pos_
C29_Witness ==
    /\ p_pc = "idle"
    /\ Len(popped) > capacity_
    /\ high_water_mark_ > largest_size
    /\ largest_size > 0
    /\ USub(write_pos_, read_pos_) < largest_size

(***************************************************************************)
(* The ring operations as whole calls, used where no second thread runs    *)
(* inside the call.  A ring value is the record of the RingBuffer members. *)
(***************************************************************************)
Ring == [slots |-> slots_, write |-> write_pos_, read |-> read_pos_,
         hwm |-> high_water_mark_]

SetRing(r) ==
    /\ slots_' = r.slots
    /\ write_pos_' = r.write
    /\ read_pos_' = r.read
    /\ high_water_mark_' = r.hwm
    /\ largest_size' = Max(largest_size, USub(r.write, r.read))
    /\ UNCHANGED capacity_

\* RingBuffer::size
size(r) == USub(r.write, r.read)

\* RingBuffer::try_push
try_push(r, slot) ==
    IF RingFull(r.write, r.read)
    THEN [ok |-> FALSE, ring |-> r]
    ELSE [ok |-> TRUE,
          ring |-> [slots |-> [r.slots EXCEPT ![CellIndex(r.write)] = slot],
                    write |-> UAdd(r.write, 1),
                    read |-> r.read,
                    hwm |-> HwmAfter(r.hwm, UAdd(r.write, 1), r.read)]]

\* RingBuffer::try_pop
try_pop(r) ==
    IF RingEmpty(r.read, r.write)
    THEN [ok |-> FALSE, slot |-> DefaultSlot, ring |-> r]
    ELSE [ok |-> TRUE,
          slot |-> r.slots[CellIndex(r.read)],
          ring |-> [r EXCEPT !.read = UAdd(r.read, 1)]]

\* slots_[(write + i) & mask_] of the bulk copy loop
BulkCellIndexNoOffset(write, i) == CellIndex(i)
BulkCellIndex(write, i) == CellIndex(UAdd(write, i))

\* the copy loop of try_push_bulk: cells write .. write + to_push - 1
RECURSIVE BulkCopy(_, _, _, _, _)
BulkCopy(cells, write, span, i, to_push) ==
    IF i >= to_push THEN cells
    ELSE BulkCopy([cells EXCEPT ![BulkCellIndex(write, i)] = span[i + 1]],
                  write, span, i + 1, to_push)

\* the ring after CounterMod - 2 default slots have been pushed and popped
\* one by one: both counters are two steps from their overflow
InitWrapping ==
    /\ capacity_ \in {c \in 0 .. MaxCapacity + 1 : validate_capacity(c)}
    /\ slots_ = [i \in 0 .. capacity_ - 1 |-> DefaultSlot]
    /\ write_pos_ = CounterMod - 2
    /\ read_pos_ = CounterMod - 2
    /\ high_water_mark_ = 1
    /\ largest_size = 1
    /\ ThreadsIdle /\ ObsInit /\ BulkIdle
    /\ ParserAbsent /\ StatsAbsent /\ HistIdle /\ RunAbsent /\ BypassAbsent /\ FanInAbsent

SpecWrapping == InitWrapping /\ [][Next]_vars

\* C33: across the overflow of the w-bit counters, size is
\* (write - read) mod 2^w and is the number of slots held, the ring is full
\* exactly when that is capacity and empty exactly when it is 0, a push is
\* refused exactly on a full ring and a pop starts only on a ring that is
\* not empty, and the slots popped are a prefix of the slots pushed.
C33_CounterOverflow ==
    /\ [](size(Ring) = (write_pos_ - read_pos_) % CounterMod)
    /\ [](size(Ring) = Len(pushed) - Len(popped))
    /\ [](RingFull(write_pos_, read_pos_) = (Len(pushed) - Len(popped) = capacity_))
    /\ [](RingEmpty(read_pos_, write_pos_) = (Len(pushed) - Len(popped) = 0))
    /\ [][calls' > calls =>
              (rejected' > rejected) = (Len(pushed) - Len(popped) = capacity_)]_vars
    /\ [][(c_pc = "idle" /\ c_pc' /= "idle") => Len(pushed) - Len(popped) > 0]_vars
    /\ [](IsPrefix(popped, pushed))

\* the write counter has overflowed and the read counter has not; a slot
\* was popped, and the ring is full and has refused a push
C33_Witness ==
    /\ write_pos_ < read_pos_
    /\ Len(pushed) - Len(popped) = capacity_
    /\ rejected > 0
    /\ p_pc = "idle" /\ c_pc = "idle"
    /\ Len(popped) = 1

\* RingBuffer::try_push_bulk; null is slots == nullptr, count the length
try_push_bulk(r, null, span, count) ==
    IF count = 0 \/ null THEN [ret |-> 0, ring |-> r]
    ELSE LET available_space == USub(capacity_, USub(r.write, r.read))
             to_push == Min(count, available_space)
         IN  IF to_push = 0 THEN [ret |-> 0, ring |-> r]
             ELSE [ret |-> to_push,
                   ring |-> [slots |-> BulkCopy(r.slots, r.write, span, 0, to_push),
                             write |-> UAdd(r.write, to_push),
                             read |-> r.read,
                             hwm |-> HwmAfter(r.hwm, UAdd(r.write, to_push), r.read)]]

\* std::min(max_count, available_items) of try_pop_bulk
to_pop_uncapped(max_count, available_items) == max_count
to_pop(max_count, available_items) == Min(max_count, available_items)

\* RingBuffer::try_pop_bulk; null is slots == nullptr; out is what the
\* copy loop writes to slots[0 .. to_pop - 1]
try_pop_bulk(r, null, max_count) ==
    IF max_count = 0 \/ null THEN [ret |-> 0, out |-> <<>>, ring |-> r]
    ELSE LET available_items == USub(r.write, r.read)
             n == to_pop(max_count, available_items)
         IN  IF n = 0 THEN [ret |-> 0, out |-> <<>>, ring |-> r]
             ELSE [ret |-> n,
                   out |-> [i \in 1 .. n |->
                               r.slots[BulkCellIndex(r.read, i - 1)]],
                   ring |-> [r EXCEPT !.read = UAdd(r.read, n)]]

(***************************************************************************)
(* Single-threaded use of the ring: bulk pushes, single pushes and pops.   *)
(***************************************************************************)
\* longest span handed to try_push_bulk
MaxSpan == 3

\* the span of count fresh slots following the calls made so far
FreshSpan(count) == [i \in 1 .. count |-> MakeSlot(calls + i, calls + i)]

BulkPush(null, count) ==
    LET span == FreshSpan(count)
        res == try_push_bulk(Ring, null, span, count)
    IN  /\ calls + count <= MaxPush
        /\ SetRing(res.ring)
        /\ bulk_before' = Ring
        /\ bulk_in' = span
        /\ bulk_ret' = res.ret
        /\ bulk_null' = null /\ bulk_count' = count
        /\ last_op' = "try_push_bulk"
        /\ calls' = calls + count
        /\ pushed' = pushed \o SubSeq(span, 1, res.ret)
        /\ rejected' = rejected + (count - res.ret)
        /\ UNCHANGED <<popped, bulk_out, notBulk>>

SinglePush ==
    LET slot == MakeSlot(calls + 1, calls + 1)
        res == try_push(Ring, slot)
    IN  /\ calls < MaxPush
        /\ SetRing(res.ring)
        /\ last_op' = "try_push"
        /\ calls' = calls + 1
        /\ pushed' = IF res.ok THEN Append(pushed, slot) ELSE pushed
        /\ rejected' = IF res.ok THEN rejected ELSE rejected + 1
        /\ UNCHANGED <<popped, bulk_before, bulk_in, bulk_ret, bulk_null,
                       bulk_count, bulk_out, notBulk>>

SinglePop ==
    LET res == try_pop(Ring)
    IN  /\ res.ok
        /\ SetRing(res.ring)
        /\ last_op' = "try_pop"
        /\ popped' = Append(popped, res.slot)
        /\ UNCHANGED <<pushed, calls, rejected, bulk_before, bulk_in, bulk_ret,
                       bulk_null, bulk_count, bulk_out, notBulk>>

BulkPop(null, max_count) ==
    LET res == try_pop_bulk(Ring, null, max_count)
    IN  /\ SetRing(res.ring)
        /\ bulk_before' = Ring
        /\ bulk_null' = null /\ bulk_count' = max_count
        /\ bulk_out' = res.out
        /\ bulk_ret' = res.ret
        /\ last_op' = "try_pop_bulk"
        /\ popped' = popped \o res.out
        /\ UNCHANGED <<pushed, calls, rejected, bulk_in, notBulk>>

InitBulk ==
    /\ RingInit /\ ThreadsIdle /\ ObsInit /\ BulkIdle
    /\ ParserAbsent /\ StatsAbsent /\ HistIdle /\ RunAbsent /\ BypassAbsent /\ FanInAbsent

NextBulk ==
    \/ \E null \in BOOLEAN, count \in 0 .. MaxSpan : BulkPush(null, count)
    \/ SinglePush
    \/ SinglePop

SpecBulk == InitBulk /\ [][NextBulk]_vars

\* bulk pushes and bulk pops only
NextBulkPop ==
    \/ \E null \in BOOLEAN, count \in 0 .. MaxSpan : BulkPush(null, count)
    \/ \E null \in BOOLEAN, max_count \in 0 .. MaxSpan : BulkPop(null, max_count)

SpecBulkPop == InitBulk /\ [][NextBulkPop]_vars

\* k successive try_push calls of span[1 .. k]: the ring they leave and
\* whether every one of them succeeded
RECURSIVE PushEach(_, _, _, _)
PushEach(r, span, i, k) ==
    IF i > k THEN [ok |-> TRUE, ring |-> r]
    ELSE LET res == try_push(r, span[i])
         IN  IF res.ok THEN PushEach(res.ring, span, i + 1, k)
             ELSE [ok |-> FALSE, ring |-> res.ring]

\* everything successive try_pop calls return until the ring is empty
RECURSIVE PopAll(_)
PopAll(r) ==
    LET res == try_pop(r)
    IN  IF res.ok THEN <<res.slot>> \o PopAll(res.ring) ELSE <<>>

\* C3: try_push_bulk returning k leaves the stored slots, the write counter,
\* the size and the high-water mark, and what the consumer then pops, as k
\* successive successful try_push calls of the first k slots do.
C3_BulkConsistency ==
    last_op = "try_push_bulk" =>
        LET each == PushEach(bulk_before, bulk_in, 1, bulk_ret)
        IN  /\ each.ok
            /\ Ring = each.ring
            /\ size(Ring) = size(each.ring)
            /\ PopAll(Ring) = PopAll(bulk_before) \o SubSeq(bulk_in, 1, bulk_ret)

\* a bulk call accepted part of its span into a ring that already held a
\* slot and whose cells had all been used before
C3_Witness ==
    /\ last_op = "try_push_bulk"
    /\ bulk_ret > 0
    /\ bulk_ret < Len(bulk_in)
    /\ size(bulk_before) > 0
    /\ bulk_before.write >= capacity_

\* k successive try_pop calls: the slots they return and the ring they
\* leave
RECURSIVE PopEach(_, _)
PopEach(r, k) ==
    IF k = 0 THEN [slots |-> <<>>, ring |-> r]
    ELSE LET res == try_pop(r)
             rest == PopEach(res.ring, k - 1)
         IN  [slots |-> (IF res.ok THEN <<res.slot>> ELSE <<>>) \o rest.slots,
              ring |-> rest.ring]

\* C22: a bulk call given a valid pointer and the count n transfers
\* min(n, free cells) slots when pushing and min(n, size) slots when
\* popping, free cells and size being those at the start of the call; it
\* moves its own counter by that amount, leaves the other counter, and
\* try_pop_bulk returning k yields the slots, in order, and leaves the
\* ring, that k successive try_pop calls do.
C22_BulkCounts ==
    /\ (last_op = "try_push_bulk" /\ ~bulk_null) =>
            /\ bulk_ret = Min(bulk_count, capacity_ - size(bulk_before))
            /\ write_pos_ = UAdd(bulk_before.write, bulk_ret)
            /\ read_pos_ = bulk_before.read
    /\ (last_op = "try_pop_bulk" /\ ~bulk_null) =>
            /\ bulk_ret = Min(bulk_count, size(bulk_before))
            /\ read_pos_ = UAdd(bulk_before.read, bulk_ret)
            /\ write_pos_ = bulk_before.write
            /\ Len(bulk_out) = bulk_ret
            /\ bulk_out = PopEach(bulk_before, bulk_ret).slots
            /\ Ring = PopEach(bulk_before, bulk_ret).ring

\* a bulk pop asked for more slots than the ring held, the slots it
\* returned wrapping around the end of the cell array; and before it a
\* bulk push had been cut short by a full ring
C22_Witness ==
    /\ last_op = "try_pop_bulk" /\ ~bulk_null
    /\ bulk_ret >= 2 /\ bulk_ret < bulk_count
    /\ CellIndex(bulk_before.read) + bulk_ret > capacity_
    /\ rejected > 0
    /\ Len(bulk_in) > 0

(***************************************************************************)
(* Msg, the wire format and the byte streams fed to the parser.            *)
(***************************************************************************)
\* sizeof(Msg)
RecordSize == 20
\* number of byte streams the peer may send
NumStreams == 3
\* bytes of an incomplete record at the end of a stream
TailBytes == 7
\* longest chunk one read delivers
MaxChunk == 41

\* Msg(): seq(0), px(0.0), qty(0)
DefaultMsg == [seq |-> 0, px |-> <<0, 0, 0, 0, 0, 0, 0, 0>>, qty |-> <<0, 0, 0, 0>>]
DefaultMsgSlot == [raw |-> DefaultMsg, rx_ts |-> 0]

\* the n low bytes of v, least significant first
RECURSIVE LEBytes(_, _)
LEBytes(v, n) == IF n = 0 THEN <<>> ELSE <<v % 256>> \o LEBytes(v \div 256, n - 1)

\* the unsigned integer whose little-endian bytes are b
RECURSIVE LEValue(_)
LEValue(b) == IF Len(b) = 0 THEN 0 ELSE b[1] + 256 * LEValue(Tail(b))

\* std::memcpy(&msg, data + offset, sizeof(Msg)) on the packed Msg: seq is
\* bytes 0..7, px bytes 8..15 and qty bytes 16..19, kept as raw bytes
DecodeMsg(bytes) ==
    [seq |-> LEValue(SubSeq(bytes, 1, 8)),
     px |-> SubSeq(bytes, 9, 16),
     qty |-> SubSeq(bytes, 17, 20)]

\* the sequence number of record j of stream k
StreamSeq(k, j) ==
    CASE k = 1 -> j
      [] k = 2 -> IF j > 3 THEN j + 1 ELSE j
      [] OTHER -> 250 + k * j

\* the 20 bytes of record j of stream k
StreamRecord(k, j) ==
    LEBytes(StreamSeq(k, j), 8)
        \o [i \in 1 .. 8 |-> (31 * k + 7 * j + i) % 256]
        \o [i \in 1 .. 4 |-> (k + j + 3 * i) % 256]

RECURSIVE StreamRecords(_, _)
StreamRecords(k, n) ==
    IF n = 0 THEN <<>> ELSE StreamRecords(k, n - 1) \o StreamRecord(k, n)

\* stream k: n whole records followed by the first TailBytes bytes of the next
StreamOf(k, n) ==
    StreamRecords(k, n) \o SubSeq(StreamRecord(k, n + 1), 1, TailBytes)

(***************************************************************************)
(* IngestionStats                                                          *)
(***************************************************************************)
\* latency_buckets_.size()
NumBuckets == 1001

Stats == [received |-> messages_received_, processed |-> messages_processed_,
          dropped |-> messages_dropped_, bytes |-> bytes_received_,
          first_seen |-> first_message_seen_, expected_seq |-> expected_seq_,
          gap_count |-> gap_count_, buckets |-> latency_buckets_]

SetStats(st) ==
    /\ messages_received_' = st.received
    /\ messages_processed_' = st.processed
    /\ messages_dropped_' = st.dropped
    /\ bytes_received_' = st.bytes
    /\ first_message_seen_' = st.first_seen
    /\ expected_seq_' = st.expected_seq
    /\ gap_count_' = st.gap_count
    /\ latency_buckets_' = st.buckets

\* latency_buckets_[i]; the array is kept as the tuple of its elements
BucketAt(buckets, i) == buckets[i + 1]

\* IngestionStats::IngestionStats
StatsInit ==
    /\ messages_received_ = 0 /\ messages_processed_ = 0
    /\ messages_dropped_ = 0 /\ bytes_received_ = 0
    /\ first_message_seen_ = FALSE /\ expected_seq_ = 0 /\ gap_count_ = 0
    /\ latency_buckets_ = [i \in 1 .. NumBuckets |-> 0]

\* IngestionStats::record_bytes_received
record_bytes_received_last(st, bytes) == [st EXCEPT !.bytes = bytes]
record_bytes_received(st, bytes) == [st EXCEPT !.bytes = @ + bytes]

\* IngestionStats::record_message_received
record_message_received(st) == [st EXCEPT !.received = @ + 1]

\* IngestionStats::record_message_dropped
record_message_dropped_lost(st) == st
record_message_dropped(st) == [st EXCEPT !.dropped = @ + 1]

\* the bucket of a latency: 0..999 microseconds, 1000 for the overflow
LatencyBucket(latency_ns) ==
    LET latency_us == latency_ns \div 1000
    IN  IF latency_us < 1000 THEN latency_us ELSE 1000

\* IngestionStats::record_message_processed
record_message_processed(st, slot, now_ns) ==
    LET seq == slot.raw.seq
        bucket == LatencyBucket(now_ns - slot.rx_ts)
    IN  [st EXCEPT
            !.processed = @ + 1,
            !.first_seen = TRUE,
            !.expected_seq = IF ~st.first_seen THEN seq ELSE seq + 1,
            !.gap_count = IF st.first_seen /\ seq /= st.expected_seq
                          THEN @ + 1 ELSE @,
            !.buckets = [@ EXCEPT ![bucket + 1] = @ + 1]]

(***************************************************************************)
(* MessageParser                                                           *)
(***************************************************************************)
\* the state a parse_bytes call works on
ParseState == [ring |-> Ring, stats |-> Stats, clock |-> clock,
               emitted |-> emitted, pushed |-> pushed]

\* the two branches of process_complete_message on the result of try_push
AfterPush(ps, msg, slot, res) ==
    IF ~res.ok
    THEN [ps EXCEPT !.stats = record_message_dropped(@),
                    !.emitted = Append(@, msg)]
    ELSE [ps EXCEPT !.ring = res.ring,
                    !.stats = record_message_received(@),
                    !.emitted = Append(@, msg),
                    !.pushed = Append(@, slot)]

\* MessageParser::process_complete_message
process_complete_message(ps, msg, timestamp) ==
    AfterPush(ps, msg, MakeSlot(msg, timestamp),
              try_push(ps.ring, MakeSlot(msg, timestamp)))

\* while (offset + sizeof(Msg) <= size)
ParseMoreStrict(offset, nbytes) == offset + RecordSize < nbytes
ParseMore(offset, nbytes) == offset + RecordSize <= nbytes

\* one pass of the message loop of parse_bytes: the clock is read, the
\* message copied out of the data and handed on
ParseOne(ps, data, offset, now_ns) ==
    process_complete_message([ps EXCEPT !.clock = @ + 1],
                             DecodeMsg(SubSeq(data, offset + 1, offset + RecordSize)),
                             now_ns)

\* the message loop of parse_bytes
RECURSIVE ParseLoop(_, _, _, _)
ParseLoop(ps, data, nbytes, offset) ==
    IF ParseMore(offset, nbytes)
    THEN ParseLoop(ParseOne(ps, data, offset, ps.clock),
                   data, nbytes, offset + RecordSize)
    ELSE [ps |-> ps, offset |-> offset]

\* the end of parse_bytes: what follows the last whole message becomes the
\* carry.  (The assign from the carry's own storage moves the tail to the
\* front.)
SaveRemainingHead(done, data, nbytes) ==
    [ps |-> done.ps,
     partial_buffer |-> IF done.offset < nbytes
                        THEN SubSeq(data, 1, nbytes - done.offset)
                        ELSE <<>>]
SaveRemaining(done, data, nbytes) ==
    [ps |-> done.ps,
     partial_buffer |-> IF done.offset < nbytes
                        THEN SubSeq(data, done.offset + 1, nbytes)
                        ELSE <<>>]

\* parse_bytes once the carry has been put in front of the new bytes
ParseData(ps, data) ==
    SaveRemaining(ParseLoop(ps, data, Len(data), 0), data, Len(data))

\* MessageParser::parse_bytes
parse_bytes(ps, partial_buffer, chunk) ==
    ParseData(ps, IF partial_buffer /= <<>> THEN partial_buffer \o chunk ELSE chunk)

\* MessageParser::parse_bytes_zero_copy
parse_bytes_zero_copy(ps, partial_buffer, chunk) ==
    parse_bytes(ps, partial_buffer, chunk)

(***************************************************************************)
(* The single-feed pipeline, one call per step: the reception thread reads *)
(* a chunk and parses it into the ring, the consumer pops a slot and       *)
(* records it.                                                             *)
(***************************************************************************)
\* the message the encoder put into stream k as record j
OriginalMsg(k, j) ==
    [seq |-> StreamSeq(k, j),
     px |-> [i \in 1 .. 8 |-> (31 * k + 7 * j + i) % 256],
     qty |-> [i \in 1 .. 4 |-> (k + j + 3 * i) % 256]]

\* the chunk sizes of the split-record delivery
SplitChunks == <<13, 13, 14>>

\* how many leading chunks of the delivery match SplitChunks; -1 once a
\* chunk did not match
SplitAfter(seen, n) ==
    IF seen >= 0 /\ seen < Len(SplitChunks) /\ n = SplitChunks[seen + 1]
    THEN seen + 1 ELSE -1

RingInitMsg ==
    /\ capacity_ \in {c \in 0 .. MaxCapacity + 1 : validate_capacity(c)}
    /\ slots_ = [i \in 0 .. capacity_ - 1 |-> DefaultMsgSlot]
    /\ write_pos_ = 0
    /\ read_pos_ = 0
    /\ high_water_mark_ = 0
    /\ largest_size = 0

ParserInit ==
    /\ stream \in {[id |-> k, bytes |-> StreamOf(k, capacity_ + 2)] :
                   k \in 1 .. NumStreams}
    /\ fed = 0
    /\ partial_buffer_ = <<>>
    /\ split_seen = 0
    /\ clock = 1
    /\ emitted = <<>>

\* what the single-feed pipeline leaves alone
notIngest == <<prodVars, consVars, bulkVars, calls, rejected, histVars,
               bypassVars, fanVars, blockVars,
               reconnectVars, feedLifeVars>>

\* one iteration of NetworkClient::run_io_loop that reads n bytes
RunIoLoopRead(n) ==
    /\ fed + n <= Len(stream.bytes)
    /\ \E res \in {parse_bytes_zero_copy(
                       [ParseState EXCEPT !.stats = record_bytes_received(@, n)],
                       partial_buffer_,
                       SubSeq(stream.bytes, fed + 1, fed + n))} :
           /\ SetRing(res.ps.ring)
           /\ SetStats(res.ps.stats)
           /\ clock' = res.ps.clock
           /\ emitted' = res.ps.emitted
           /\ pushed' = res.ps.pushed
           /\ partial_buffer_' = res.partial_buffer
    /\ fed' = fed + n
    /\ split_seen' = SplitAfter(split_seen, n)
    /\ UNCHANGED <<stream, popped, notIngest>>

\* one iteration of IngestionBenchmark::consumer_loop that pops a slot
ConsumerLoopPop ==
    \E res \in {try_pop(Ring)} :
        /\ res.ok
        /\ SetRing(res.ring)
        /\ SetStats(record_message_processed(Stats, res.slot, clock))
        /\ clock' = clock + 1
        /\ popped' = Append(popped, res.slot)
        /\ UNCHANGED <<stream, fed, partial_buffer_, split_seen, emitted,
                       pushed, notIngest>>

InitIngest ==
    /\ RingInitMsg /\ ThreadsIdle /\ ObsInit /\ BulkIdle
    /\ ParserInit /\ StatsInit /\ HistIdle /\ RunAbsent /\ BypassAbsent /\ FanInAbsent

NextIngest ==
    \/ \E n \in 1 .. MaxChunk : RunIoLoopRead(n) /\ UNCHANGED runVars
    \/ ConsumerLoopPop /\ UNCHANGED runVars

SpecIngest == InitIngest /\ [][NextIngest]_vars

\* the first n records of the stream
OriginalRecords(n) == [j \in 1 .. n |-> OriginalMsg(stream.id, j)]

\* the messages of a sequence of slots
RawOf(slots) == [i \in 1 .. Len(slots) |-> slots[i].raw]

\* C4: however the stream is cut into chunks, the records handed on by
\* parse_bytes are the consecutive 20-byte records of the bytes fed so far,
\* and while the ring was never full they are the records pushed; after the
\* chunks 13, 13, 14 these are exactly the two original records.
C4_ParserTotal ==
    /\ emitted = OriginalRecords(fed \div RecordSize)
    /\ messages_dropped_ = 0 => RawOf(pushed) = OriginalRecords(fed \div RecordSize)
    /\ (split_seen = Len(SplitChunks) /\ messages_dropped_ = 0) =>
           RawOf(pushed) = <<OriginalMsg(stream.id, 1), OriginalMsg(stream.id, 2)>>

\* the chunks 13, 13, 14 have been delivered and both records are pushed
C4_Witness ==
    /\ split_seen = Len(SplitChunks)
    /\ messages_dropped_ = 0
    /\ Len(pushed) = 2
    /\ partial_buffer_ = <<>>

C9_BackpressureDrop ==
    popped = <<>> =>
        LET n == Len(emitted)
            kept == Min(n, capacity_)
        IN  /\ n = fed \div RecordSize
            /\ RawOf(pushed) = SubSeq(emitted, 1, kept)
            /\ messages_received_ = kept
            /\ messages_dropped_ = n - kept
            /\ size(Ring) = kept
            /\ high_water_mark_ = kept

\* capacity 4, five records parsed, none popped: the fifth was dropped
C9_Witness ==
    /\ popped = <<>>
    /\ capacity_ = 4
    /\ Len(emitted) = 5
    /\ messages_dropped_ = 1
    /\ size(Ring) = 4
    /\ high_water_mark_ = 4

\* the sum of |s(i+1) - (s(i) + 1)| over the consecutive pairs of seqs
Abs(x) == IF x < 0 THEN -x ELSE x

RECURSIVE GapSum(_)
GapSum(seqs) ==
    IF Len(seqs) < 2 THEN 0
    ELSE Abs(seqs[2] - (seqs[1] + 1)) + GapSum(Tail(seqs))

\* the sequence numbers of a sequence of slots
SeqsOf(slots) == [i \in 1 .. Len(slots) |-> slots[i].raw.seq]

\* C5: after the records with sequence numbers s1 .. sn have been processed
\* the gap counter is the sum of |s(i+1) - (s(i)+1)| over consecutive pairs
\* (1 for 1, 2, 3, 5, 6 and 0 for a consecutive sequence).
C5_GapCounter == gap_count_ = GapSum(SeqsOf(popped))

\* C23: every step that processes a record with sequence number s leaves
\* next_expected = s + 1, the first record of the feed included; it adds
\* |s - next_expected| to the gap counter when the record is not the first
\* and s differs from next_expected, and leaves the gap counter otherwise.
C23_NextExpected ==
    [][messages_processed_' = messages_processed_ + 1 =>
           LET s == popped'[Len(popped')].raw.seq
           IN  /\ expected_seq_' = s + 1
               /\ gap_count_' =
                      gap_count_ +
                          (IF first_message_seen_ /\ s /= expected_seq_
                           THEN Abs(s - expected_seq_) ELSE 0)]_vars

(***************************************************************************)
(* The latency histogram and its percentiles.                              *)
(***************************************************************************)
\* number of samples recorded
MaxSamples == 3

\* latencies in nanoseconds of the recorded samples: buckets 0, 1, 999, and
\* the overflow bucket
Latencies == {0, 1500, 999999, 2500000}

\* the percentiles print_final_stats asks for, as fractions
Percentiles == {<<50, 100>>, <<90, 100>>, <<95, 100>>, <<99, 100>>, <<999, 1000>>}

\* the sum of the buckets lo .. hi
RECURSIVE BucketSum(_, _, _)
BucketSum(buckets, lo, hi) ==
    IF lo > hi THEN 0
    ELSE IF lo = hi THEN BucketAt(buckets, lo)
    ELSE BucketSum(buckets, lo, (lo + hi) \div 2)
             + BucketSum(buckets, (lo + hi) \div 2 + 1, hi)

\* count after adding the buckets 0 .. i
CumCount(buckets, i) == BucketSum(buckets, 0, i)

\* the loop of calculate_percentile over the buckets lo .. hi, entered with
\* the running count: the bucket at which it returns (-1 if it does not)
\* and the running count it leaves.  The range is scanned in order, first
\* half then second half.
RECURSIVE PercentileScan(_, _, _, _, _)
ScanSecondHalf(first, buckets, target, lo, hi) ==
    IF first.at >= 0 THEN first
    ELSE PercentileScan(buckets, target, lo, hi, first.count)

ScanOne(buckets, target, i, count) ==
    IF count >= target THEN [at |-> i, count |-> count]
    ELSE [at |-> -1, count |-> count]

PercentileScan(buckets, target, lo, hi, count) ==
    IF lo = hi
    THEN ScanOne(buckets, target, lo, count + BucketAt(buckets, lo))
    ELSE ScanSecondHalf(
             PercentileScan(buckets, target, lo, (lo + hi) \div 2, count),
             buckets, target, (lo + hi) \div 2 + 1, hi)

\* the value calculate_percentile returns when its loop ends at bucket i
PercentileResult(i) ==
    IF i < 0 THEN 0 ELSE IF i >= 1000 THEN 1000 ELSE i

\* IngestionStats::calculate_percentile; the percentile is the fraction
\* p[1] / p[2] and the conversion to std::uint64_t truncates
calculate_percentile(buckets, p, total_samples) ==
    PercentileResult(
        PercentileScan(buckets, (total_samples * p[1]) \div p[2],
                       0, NumBuckets - 1, 0).at)

\* what the histogram specification leaves alone
notHist == <<ringVars, prodVars, consVars, obsVars, bulkVars, parserVars,
             emitted, bypassVars, fanVars, runVars, blockVars,
             reconnectVars, feedLifeVars>>

\* record_message_processed of a slot received latency_ns before now
RecordProcessed(latency_ns) ==
    /\ messages_processed_ < MaxSamples
    /\ SetStats(record_message_processed(
                    Stats,
                    MakeSlot([DefaultMsg EXCEPT !.seq = messages_processed_ + 1], clock),
                    clock + latency_ns))
    /\ clock' = clock + latency_ns
    /\ UNCHANGED <<histVars, notHist>>

\* calculate_percentile as print_final_stats calls it
CalculatePercentile(p) ==
    /\ messages_processed_ > 0
    /\ pct_p' = p
    /\ pct_ret' = calculate_percentile(latency_buckets_, p, messages_processed_)
    /\ UNCHANGED <<statsVars, clock, last_flush_, notHist>>

InitHist ==
    /\ RingInit /\ ThreadsIdle /\ ObsInit /\ BulkIdle
    /\ stream = <<>> /\ fed = 0 /\ partial_buffer_ = <<>> /\ split_seen = 0
    /\ clock = 1 /\ emitted = <<>>
    /\ StatsInit /\ HistIdle /\ RunAbsent /\ BypassAbsent /\ FanInAbsent

NextHist ==
    \/ \E latency_ns \in Latencies : RecordProcessed(latency_ns)
    \/ \E p \in Percentiles : CalculatePercentile(p)

SpecHist == InitHist /\ [][NextHist]_vars

(***************************************************************************)
(* The periodic flush of IngestionStats, called by the consumer loop after *)
(* every try_pop.                                                          *)
(***************************************************************************)
\* a second on the scale of clock
NanosPerSecond == 1000000000
\* seconds the clock runs
MaxFlushSeconds == 1

\* duration_cast<seconds>(now - last_flush_).count() >= 1
FlushDue(now) == (now - last_flush_) \div NanosPerSecond >= 1

\* half a second passes
HalfSecondPasses ==
    /\ clock + NanosPerSecond \div 2 <= MaxFlushSeconds * NanosPerSecond + 1
    /\ clock' = clock + NanosPerSecond \div 2
    /\ UNCHANGED <<statsVars, histVars, notHist>>

\* IngestionStats::check_periodic_flush when a second has passed:
\* print_periodic_stats only reads the counters
CheckPeriodicFlush ==
    /\ FlushDue(clock)
    /\ last_flush_' = clock
    /\ UNCHANGED <<statsVars, clock, pct_p, pct_ret, notHist>>

InitFlush ==
    /\ RingInit /\ ThreadsIdle /\ ObsInit /\ BulkIdle
    /\ stream = <<>> /\ fed = 0 /\ partial_buffer_ = <<>> /\ split_seen = 0
    /\ clock = 1 /\ emitted = <<>>
    /\ StatsInit /\ pct_p = <<>> /\ pct_ret = 0 /\ last_flush_ = clock
    /\ RunAbsent /\ BypassAbsent /\ FanInAbsent

NextFlush ==
    \/ \E latency_ns \in Latencies : RecordProcessed(latency_ns)
    \/ HalfSecondPasses
    \/ CheckPeriodicFlush

SpecFlush == InitFlush /\ [][NextFlush]_vars

\* C27: every flush leaves all bins of the latency histogram at zero and
\* last_flush at the current time.
C27_FlushZeroesHistogram ==
    [][last_flush_' /= last_flush_ =>
           /\ \A b \in 1 .. NumBuckets : latency_buckets_'[b] = 0
           /\ last_flush_' = clock']_vars

\* the least integer not below n * p[1] / p[2]
CeilOf(n, p) == (n * p[1] + p[2] - 1) \div p[2]

\* C6: the bin b returned for a percentile p of N samples is the smallest
\* bin whose cumulative count reaches ceil(N * p).
C6_HistogramQuantile ==
    pct_p /= <<>> =>
        LET N == CumCount(latency_buckets_, NumBuckets - 1)
        IN  /\ CumCount(latency_buckets_, pct_ret) >= CeilOf(N, pct_p)
            /\ CumCount(latency_buckets_, pct_ret - 1) < CeilOf(N, pct_p)

(***************************************************************************)
(* The kernel-bypass client: a driver whose reception thread hands packets *)
(* to BypassIngestionClient::packet_handler, and the pool of pending       *)
(* packet tokens.                                                          *)
(***************************************************************************)
\* BypassIngestionClient::MAX_PENDING_PACKETS
MAX_PENDING_PACKETS == 1024
pending_mask_ == MAX_PENDING_PACKETS - 1
\* BypassConfig::zero_copy_threshold
zero_copy_threshold == 64
\* a null packet context
NULL == 0

\* packets in a large burst
BigBurst == 600
\* iterations of the reception loop that deliver packets
MaxBursts == 3
\* what one iteration of a reception loop may deliver: n packets of recs
\* records each
Bursts == {[n |-> 1, recs |-> 4], [n |-> BigBurst, recs |-> 1]}

\* the context of the n-th packet: the Boost.Asio driver passes nullptr, the
\* DPDK driver the packet's mbuf
PacketContext(n) == IF backend = "dpdk" THEN n ELSE NULL

\* the bytes of recs records of the peer's stream that follow the first
\* `sent` bytes
PacketData(sent, recs) ==
    [i \in 1 .. recs * RecordSize |->
        StreamRecord(stream.id, (sent + i - 1) \div RecordSize + 1)
            [((sent + i - 1) % RecordSize) + 1]]

\* (write_pos - read_pos) >= MAX_PENDING_PACKETS
PendingFullNever(write_pos, read_pos) == FALSE
PendingFull(write_pos, read_pos) == write_pos - read_pos >= MAX_PENDING_PACKETS

\* pending_packets_[pos & pending_mask_]
PendingIndex(pos) == BitAnd(pos, pending_mask_) + 1

Pool == [packets |-> pending_packets_, write |-> pending_write_pos_,
         read |-> pending_read_pos_]

\* BypassIngestionClient::try_add_pending_packet
try_add_pending_packet(pool, context) ==
    IF PendingFull(pool.write, pool.read)
    THEN [ok |-> FALSE, pool |-> pool]
    ELSE [ok |-> TRUE,
          pool |-> [pool EXCEPT !.packets[PendingIndex(pool.write)] = context,
                                !.write = @ + 1]]

\* BypassIngestionClient::try_get_pending_packet
try_get_pending_packet(pool) ==
    IF pool.read = pool.write
    THEN [context |-> NULL, pool |-> pool]
    ELSE [context |-> pool.packets[PendingIndex(pool.read)],
          pool |-> [pool EXCEPT !.read = @ + 1]]

\* KernelBypassClient::release_packet, the call recorded
release_packet(released, context) == Append(released, context)

\* the state the reception thread works on while it handles a burst
HandlerState ==
    [ps |-> ParseState, partial_buffer |-> partial_buffer_, fed |-> fed,
     pool |-> Pool, packets_received |-> packets_received_,
     bytes_received |-> client_bytes_received_,
     delivered |-> delivered, release_calls |-> release_calls]

\* the end of packet_handler, the packet lifecycle: the token goes to the
\* pending pool, or to release_packet when the pool is full or zero-copy is
\* off
AfterAdd(hs, context, add) ==
    IF ~add.ok
    THEN [hs EXCEPT !.release_calls = release_packet(@, context)]
    ELSE [hs EXCEPT !.pool = add.pool]

PacketLifecycle(hs, context) ==
    IF enable_zero_copy /\ context /= NULL
    THEN AfterAdd(hs, context, try_add_pending_packet(hs.pool, context))
    ELSE IF context /= NULL
         THEN [hs EXCEPT !.release_calls = release_packet(@, context)]
         ELSE hs

\* the parsing part of packet_handler
AfterParse(hs, parsed) ==
    [hs EXCEPT !.ps = parsed.ps, !.partial_buffer = parsed.partial_buffer]

HandlerParse(hs, data, length) ==
    AfterParse(hs,
        IF enable_zero_copy /\ length >= zero_copy_threshold
        THEN parse_bytes_zero_copy(
                 [hs.ps EXCEPT !.stats = record_bytes_received(@, length)],
                 hs.partial_buffer, data)
        ELSE parse_bytes(
                 [hs.ps EXCEPT !.stats = record_bytes_received(@, length)],
                 hs.partial_buffer, data))

\* BypassIngestionClient::packet_handler
packet_handler(hs, packet) ==
    PacketLifecycle(HandlerParse(hs, packet.data, packet.length),
                    packet.context)

\* the driver receives one packet of recs records: it counts it and calls
\* the packet handler
ReceivePacket(hs, recs) ==
    packet_handler(
        [hs EXCEPT !.packets_received = @ + 1,
                   !.bytes_received = @ + recs * RecordSize,
                   !.fed = @ + recs * RecordSize,
                   !.delivered = Append(@, PacketContext(Len(@) + 1))],
        [data |-> PacketData(hs.fed, recs), length |-> recs * RecordSize,
         context |-> PacketContext(Len(hs.delivered) + 1)])

\* n packets received one after the other: the first half of them, then,
\* from the state they leave, the others
RECURSIVE ReceivePackets(_, _, _)
ReceiveOthers(hs, n, recs) ==
    IF hs.fed >= 0 THEN ReceivePackets(hs, n, recs) ELSE hs

ReceivePackets(hs, n, recs) ==
    IF n = 0 THEN hs
    ELSE IF n = 1 THEN ReceivePacket(hs, recs)
    ELSE ReceiveOthers(ReceivePackets(hs, n \div 2, recs), n - n \div 2, recs)

\* one pass of the loop of cleanup_processed_packets; once
\* try_get_pending_packet has returned nullptr the loop has ended
AfterGet(cs, got) ==
    IF got.context = NULL
    THEN [cs EXCEPT !.ended = TRUE]
    ELSE [cs EXCEPT !.pool = got.pool,
                    !.release_calls = release_packet(@, got.context)]

CleanupPass(cs) ==
    IF cs.ended THEN cs ELSE AfterGet(cs, try_get_pending_packet(cs.pool))

\* n passes of the loop: the first half of them, then, from the state
\* they leave, the others
RECURSIVE CleanupPasses(_, _)
CleanupOthers(cs, n) ==
    IF cs.ended THEN cs ELSE CleanupPasses(cs, n)

CleanupPasses(cs, n) ==
    IF n = 0 THEN cs
    ELSE IF n = 1 THEN CleanupPass(cs)
    ELSE CleanupOthers(CleanupPasses(cs, n \div 2), n - n \div 2)

\* BypassIngestionClient::cleanup_processed_packets: the loop ends at the
\* latest with the pass that finds read_pos == write_pos
cleanup_processed_packets(pool, released) ==
    CleanupPasses([pool |-> pool, release_calls |-> released, ended |-> FALSE],
                  pool.write - pool.read + 1)

\* what the kernel-bypass specification leaves alone
notBypass == <<prodVars, consVars, bulkVars, calls, rejected, histVars,
               stream, split_seen, popped, fanVars, runVars, blockVars,
               reconnectVars, feedLifeVars>>

\* the client after initialize() has succeeded
BypassInit ==
    /\ backend \in {"asio", "dpdk"}
    /\ running_ = FALSE /\ rx_pc = "none"
    /\ packets_received_ = 0 /\ client_bytes_received_ = 0
    /\ delivered = <<>> /\ release_calls = <<>> /\ bursts = 0
    /\ packet_handler_ = NULL /\ reception_threads = 0
    /\ driver_calls = <<>>
    /\ enable_zero_copy \in BOOLEAN
    /\ pending_packets_ = [i \in 1 .. MAX_PENDING_PACKETS |-> NULL]
    /\ pending_write_pos_ = 0 /\ pending_read_pos_ = 0
    /\ m_pc = "idle"

\* BypassIngestionClient::start_ingestion: start_reception starts the
\* reception thread unless one is running
StartIngestion ==
    /\ m_pc \in {"idle", "stopped"}
    /\ backend /= "none"
    /\ ~running_
    /\ packet_handler_' = 1
    /\ running_' = TRUE
    /\ rx_pc' = "loop"
    /\ reception_threads' = reception_threads + 1
    /\ m_pc' = "ingesting"
    /\ UNCHANGED <<driver_calls, asio_socket_open>>
    /\ UNCHANGED <<backend, packets_received_, client_bytes_received_,
                   delivered, release_calls, bursts, poolVars_but_pc,
                   ringVars, parserVars, statsVars, ingestObs, pushed,
                   notBypass>>

\* one iteration of the driver's reception loop that finds running_ set
\* and receives a burst of packets.  (Boost.Asio reads one packet per
\* iteration; DPDK hands a batch to process_packet_batch.)
ReceptionLoopBurst(burst) ==
    /\ rx_pc = "loop"
    /\ running_
    /\ bursts < MaxBursts
    /\ backend = "asio" => burst.n = 1
    /\ \E hs \in {ReceivePackets(HandlerState, burst.n, burst.recs)} :
           /\ SetRing(hs.ps.ring)
           /\ SetStats(hs.ps.stats)
           /\ clock' = hs.ps.clock
           /\ emitted' = hs.ps.emitted
           /\ pushed' = hs.ps.pushed
           /\ partial_buffer_' = hs.partial_buffer
           /\ fed' = hs.fed
           /\ pending_packets_' = hs.pool.packets
           /\ pending_write_pos_' = hs.pool.write
           /\ pending_read_pos_' = hs.pool.read
           /\ packets_received_' = hs.packets_received
           /\ client_bytes_received_' = hs.bytes_received
           /\ delivered' = hs.delivered
           /\ release_calls' = hs.release_calls
    /\ bursts' = bursts + 1
    /\ UNCHANGED <<backend, running_, rx_pc, enable_zero_copy, m_pc,
                   lifeVars, notBypass>>

\* the reception loop finds running_ cleared and the thread ends
ReceptionLoopExit ==
    /\ rx_pc = "loop"
    /\ ~running_
    /\ rx_pc' = "done"
    /\ UNCHANGED <<lifeVars, backend, running_, packets_received_,
                   client_bytes_received_, delivered, release_calls, bursts,
                   poolVars, ringVars, parserVars, statsVars, ingestObs,
                   pushed, notBypass>>

\* stop_ingestion, up to the join in stop_reception
StopReception ==
    /\ m_pc \in {"idle", "ingesting", "stopped"}
    /\ backend /= "none"
    /\ running_' = FALSE
    /\ m_pc' = "join"
    /\ UNCHANGED <<lifeVars, backend, rx_pc, packets_received_,
                   client_bytes_received_, delivered, release_calls, bursts,
                   poolVars_but_pc, ringVars, parserVars, statsVars,
                   ingestObs, pushed, notBypass>>

\* stop_ingestion from the return of the join: cleanup_processed_packets
\* runs and stop_ingestion returns
StopIngestionReturn ==
    /\ m_pc = "join"
    /\ rx_pc \in {"none", "done"}
    /\ rx_pc' = "none"
    /\ reception_threads' = IF rx_pc = "done" THEN reception_threads - 1
                            ELSE reception_threads
    /\ UNCHANGED <<packet_handler_, driver_calls, asio_socket_open>>
    /\ \E cs \in {cleanup_processed_packets(Pool, release_calls)} :
           /\ pending_packets_' = cs.pool.packets
           /\ pending_write_pos_' = cs.pool.write
           /\ pending_read_pos_' = cs.pool.read
           /\ release_calls' = cs.release_calls
    /\ m_pc' = "stopped"
    /\ UNCHANGED <<backend, running_, packets_received_,
                   client_bytes_received_, delivered, bursts,
                   enable_zero_copy, ringVars, parserVars, statsVars,
                   ingestObs, pushed, notBypass>>

InitPool ==
    /\ RingInitMsg /\ ThreadsIdle /\ ObsInit /\ BulkIdle
    /\ stream = [id |-> 1, bytes |-> <<>>]
    /\ fed = 0 /\ partial_buffer_ = <<>> /\ split_seen = 0
    /\ clock = 1 /\ emitted = <<>>
    /\ StatsInit /\ HistIdle /\ RunAbsent /\ FanInAbsent
    \* connect() has succeeded
    /\ BypassInit /\ asio_socket_open = (backend = "asio")

NextPool ==
    \/ StartIngestion
    \/ \E burst \in Bursts : ReceptionLoopBurst(burst)
    \/ ReceptionLoopExit
    \/ StopReception
    \/ StopIngestionReturn

SpecPool == InitPool /\ [][NextPool]_vars

\* the elements of a sequence
Range(seq) == {seq[i] : i \in DOMAIN seq}

\* the tokens held in the pending pool
PendingTokens ==
    {pending_packets_[PendingIndex(pos)] :
        pos \in pending_read_pos_ .. pending_write_pos_ - 1}

\* C7: every non-null token handed to the packet handler is passed to
\* release_packet exactly once by the time stop_ingestion has returned:
\* no token is ever released twice, a token not yet released is in the
\* pending pool, and once stop_ingestion has returned the pool is empty and
\* every token has been released.
C7_PoolBalance ==
    /\ Cardinality(Range(release_calls)) = Len(release_calls)
    /\ Range(release_calls) \cup PendingTokens = Range(delivered) \ {NULL}
    /\ Range(release_calls) \cap PendingTokens = {}
    /\ m_pc = "stopped" => Range(release_calls) = Range(delivered) \ {NULL}

\* stop_ingestion has returned after more tokens than the pool holds were
\* delivered with zero-copy on: the first release was made by the handler
\* on finding the pool full, and the pool's tokens were released by the
\* cleanup
C7_Witness ==
    /\ m_pc = "stopped"
    /\ enable_zero_copy
    /\ backend = "dpdk"
    /\ Len(delivered) > MAX_PENDING_PACKETS
    /\ Len(release_calls) = Len(delivered)
    /\ release_calls[1] = MAX_PENDING_PACKETS + 1
    /\ release_calls[Len(release_calls)] = MAX_PENDING_PACKETS

\* C26: with zero-copy on, a packet whose handling found the Ring full (a
\* record of it was rejected by try_push and counted as dropped) has its
\* token passed to release_packet by the handler and not kept in the
\* pending pool.
C26_ReleaseOnFullRing ==
    [][(/\ enable_zero_copy
        /\ Len(delivered') = Len(delivered) + 1
        /\ delivered'[Len(delivered')] /= NULL
        /\ messages_dropped_' > messages_dropped_)
           => /\ delivered'[Len(delivered')] \in Range(release_calls')
              /\ delivered'[Len(delivered')] \notin PendingTokens']_vars

(***************************************************************************)
(* Multi-feed ingestion: per feed an I/O thread parses the feed's bytes    *)
(* into a local ring, the feed worker drains the local ring into the       *)
(* global MPSC ring, and the benchmark's consumer pops the global ring.    *)
(***************************************************************************)
\* records the peer of the primary feed and the peer of the backup feed
\* send
PrimaryRecords == 2
BackupRecords == 1
\* the global buffer has at most 2^GlobalCapacityBits cells
GlobalCapacityBits == 1

\* the workers, named by the origin_id from_cli_feeds gives them
Feeds == {0, 1}
\* the bytes of feed f; the first feed is the primary
FeedStream(f) ==
    StreamRecords(f + 1, IF f = 0 THEN PrimaryRecords ELSE BackupRecords)
\* the sizes of the chunks a read of a feed's socket may return
FeedChunks == {RecordSize}

\* MultiFeedSlot(), value-initialised by slots_.resize; arrival_time is
\* left out
DefaultMultiFeedSlot ==
    [base_slot |-> DefaultMsgSlot, origin_id |-> 0, feed_sequence |-> 0]
\* MultiFeedSlot(slot, origin, seq)
MakeMultiFeedSlot(slot, origin, seq) ==
    [base_slot |-> slot, origin_id |-> origin, feed_sequence |-> seq]

\* MPSCRingBuffer::MPSCRingBuffer does not throw
MpscCapacityValid(capacity) ==
    ~(capacity = 0 \/ BitAnd(capacity, capacity - 1) /= 0)

\* slots_[pos & mask_] of the global buffer
MpscCellIndex(pos) == BitAnd(pos, mpsc_capacity_ - 1)

\* write_pos - read_pos >= capacity_
MpscFullNever(write_pos, read_pos) == FALSE
MpscFull(write_pos, read_pos) == USub(write_pos, read_pos) >= mpsc_capacity_

\* read_pos >= write_pos
MpscEmpty(read_pos, write_pos) == read_pos >= write_pos

\* FeedMonitor::FeedMonitor followed by record_connection_established
MonitorInit ==
    [status |-> "HEALTHY", messages_received |-> 0, bytes_received |-> 0,
     sequence_gaps |-> 0, last_sequence |-> 0, expected_sequence |-> 0,
     first_message_seen |-> FALSE, last_message_time |-> 0]

\* FeedMonitor::record_message
record_message_reviving(mon, msg, bytes, now) ==
    [mon EXCEPT
        !.messages_received = @ + 1,
        !.bytes_received = @ + bytes,
        !.last_message_time = now,
        !.status = "HEALTHY"]
record_message(mon, msg, bytes, now) ==
    [mon EXCEPT
        !.messages_received = @ + 1,
        !.bytes_received = @ + bytes,
        !.last_message_time = now,
        !.first_message_seen = TRUE,
        !.expected_sequence = IF ~mon.first_message_seen THEN msg.seq
                              ELSE msg.seq + 1,
        !.sequence_gaps = IF mon.first_message_seen
                             /\ msg.seq /= mon.expected_sequence
                          THEN @ + 1 ELSE @,
        !.last_sequence = msg.seq,
        !.status = IF @ = "CONNECTING" THEN "HEALTHY" ELSE @]

\* the IngestionStats part of the worker's StatsAdapter; its histogram is
\* not written by the worker and is left out
AdapterStatsInit ==
    [received |-> 0, processed |-> 0, dropped |-> 0, bytes |-> 0,
     first_seen |-> FALSE, expected_seq |-> 0, gap_count |-> 0,
     buckets |-> <<>>]

\* FeedMonitor::FeedMonitor: status_ is CONNECTING
MonitorConstructed == [MonitorInit EXCEPT !.status = "CONNECTING"]

\* the dispatcher after start(), with each worker thread at position pc of
\* worker_loop and each monitor equal to mon
FanInStarted(mon, pc) ==
    /\ mpsc_capacity_ \in {c \in 0 .. Pow2(GlobalCapacityBits) :
                              MpscCapacityValid(c)}
    /\ mpsc_slots_ = [i \in 0 .. mpsc_capacity_ - 1 |-> DefaultMultiFeedSlot]
    /\ mpsc_write_pos_ = 0 /\ mpsc_read_pos_ = 0
    /\ feed_fed = [f \in Feeds |-> 0]
    /\ feed_partial_buffer_ = [f \in Feeds |-> <<>>]
    /\ local_buffer_ =
           [f \in Feeds |->
               [slots |-> [i \in 0 .. capacity_ - 1 |-> DefaultMsgSlot],
                write |-> 0, read |-> 0, hwm |-> 0]]
    /\ adapter_stats = [f \in Feeds |-> AdapterStatsInit]
    /\ monitor_ = [f \in Feeds |-> mon]
    /\ worker_pc = [f \in Feeds |-> pc]
    /\ fw = [f \in Feeds |-> ConstructedWorker]
    /\ w_pc = [f \in Feeds |-> "idle"]
    /\ w_slot = [f \in Feeds |-> DefaultMultiFeedSlot]
    /\ w_write = [f \in Feeds |-> 0]
    /\ forwarded = [f \in Feeds |-> 0]
    /\ now_ms = 0 /\ hm_pc = 0
    /\ health_age = [f \in Feeds |-> -1] /\ promoted = {}
    /\ hm_current = "none"
    /\ gc_pc = "idle" /\ gc_read = 0 /\ gc_slot = DefaultMultiFeedSlot
    /\ bench_messages_processed_ = 0 /\ consumed = <<>>

\* the dispatcher after start(): every worker connected, its threads
\* running
FanInInit == FanInStarted(MonitorInit, "running")

\* what the multi-feed specification leaves alone
outsideFanIn == <<ringVars, prodVars, consVars, obsVars, bulkVars, parserVars,
                  statsVars, ingestObs, histVars, bypassVars, runVars,
                  startVars, blockVars,
                  reconnectVars, feedLifeVars>>
notFanIn == <<outsideFanIn, healthVars>>

\* one iteration of run_io_loop in the I/O thread of feed f that reads n
\* bytes; the timestamp of a record is its rank in the feed
FeedIoRead(f, n) ==
    /\ f \in DOMAIN feed_fed
    /\ feed_fed[f] + n <= Len(FeedStream(f))
    /\ \E res \in {parse_bytes_zero_copy(
                       [ring |-> local_buffer_[f],
                        stats |-> record_bytes_received(adapter_stats[f], n),
                        clock |-> feed_fed[f] \div RecordSize + 1,
                        emitted |-> <<>>, pushed |-> <<>>],
                       feed_partial_buffer_[f],
                       SubSeq(FeedStream(f), feed_fed[f] + 1, feed_fed[f] + n))} :
           /\ local_buffer_' = [local_buffer_ EXCEPT ![f] = res.ps.ring]
           /\ adapter_stats' = [adapter_stats EXCEPT ![f] = res.ps.stats]
           /\ feed_partial_buffer_' =
                  [feed_partial_buffer_ EXCEPT ![f] = res.partial_buffer]
    /\ feed_fed' = [feed_fed EXCEPT ![f] = @ + n]
    /\ UNCHANGED <<monitor_, mpscVars, workerVars, fanConsVars, notFanIn>>

\* process_local_messages of worker f pops a slot of the local ring,
\* records it in the monitor and builds the slot for the global buffer
DrainPop(f) ==
    /\ f \in DOMAIN w_pc
    /\ w_pc[f] = "idle"
    /\ \E res \in {try_pop(local_buffer_[f])} :
           /\ res.ok
           /\ local_buffer_' = [local_buffer_ EXCEPT ![f] = res.ring]
           /\ monitor_' = [monitor_ EXCEPT
                              ![f] = record_message(@, res.slot.raw, RecordSize, now_ms)]
           /\ w_slot' = [w_slot EXCEPT
                            ![f] = MakeMultiFeedSlot(res.slot, f, res.slot.raw.seq)]
    /\ w_pc' = [w_pc EXCEPT ![f] = "load_write"]
    /\ UNCHANGED <<feed_fed, feed_partial_buffer_, adapter_stats, w_write,
                   forwarded, mpscVars, fanConsVars, notFanIn>>

\* MPSCRingBuffer::try_push, one atomic access per step
\* write_pos_.load
MpscPushLoadWrite(f) ==
    /\ f \in DOMAIN w_pc
    /\ w_pc[f] = "load_write"
    /\ w_write' = [w_write EXCEPT ![f] = mpsc_write_pos_]
    /\ w_pc' = [w_pc EXCEPT ![f] = "load_read"]
    /\ UNCHANGED <<w_slot, forwarded, mpscVars, feedVars, fanConsVars,
                   notFanIn>>

\* read_pos_.load and the full check; on false process_local_messages
\* prints its warning and goes on to the next slot
MpscPushLoadRead(f) ==
    /\ f \in DOMAIN w_pc
    /\ w_pc[f] = "load_read"
    /\ w_pc' = [w_pc EXCEPT
                   ![f] = IF MpscFull(w_write[f], mpsc_read_pos_)
                          THEN "idle" ELSE "cas"]
    /\ UNCHANGED <<w_slot, w_write, forwarded, mpscVars, feedVars,
                   fanConsVars, notFanIn>>

\* compare_exchange_weak succeeds
MpscPushCasOk(f) ==
    /\ f \in DOMAIN w_pc
    /\ w_pc[f] = "cas"
    /\ mpsc_write_pos_ = w_write[f]
    /\ mpsc_write_pos_' = UAdd(w_write[f], 1)
    /\ w_pc' = [w_pc EXCEPT ![f] = "store_base"]
    /\ UNCHANGED <<w_slot, w_write, forwarded, mpsc_slots_, mpsc_read_pos_,
                   mpsc_capacity_, feedVars, fanConsVars, notFanIn>>

\* compare_exchange_weak fails, because another producer moved write_pos_
\* or spuriously; try_push returns false
MpscPushCasFail(f) ==
    /\ f \in DOMAIN w_pc
    /\ w_pc[f] = "cas"
    /\ w_pc' = [w_pc EXCEPT ![f] = "idle"]
    /\ UNCHANGED <<w_slot, w_write, forwarded, mpscVars, feedVars,
                   fanConsVars, notFanIn>>

\* slots_[write_pos & mask_] = slot, member by member: base_slot
MpscPushStoreBase(f) ==
    /\ f \in DOMAIN w_pc
    /\ w_pc[f] = "store_base"
    /\ mpsc_slots_' = [mpsc_slots_ EXCEPT
                          ![MpscCellIndex(w_write[f])].base_slot =
                              w_slot[f].base_slot]
    /\ w_pc' = [w_pc EXCEPT ![f] = "store_origin"]
    /\ UNCHANGED <<w_slot, w_write, forwarded, mpsc_write_pos_, mpsc_read_pos_,
                   mpsc_capacity_, feedVars, fanConsVars, notFanIn>>

\* origin_id and feed_sequence; try_push returns true
MpscPushStoreOrigin(f) ==
    /\ f \in DOMAIN w_pc
    /\ w_pc[f] = "store_origin"
    /\ mpsc_slots_' = [mpsc_slots_ EXCEPT
                          ![MpscCellIndex(w_write[f])].origin_id =
                              w_slot[f].origin_id,
                          ![MpscCellIndex(w_write[f])].feed_sequence =
                              w_slot[f].feed_sequence]
    /\ w_pc' = [w_pc EXCEPT ![f] = "idle"]
    /\ forwarded' = [forwarded EXCEPT ![f] = @ + 1]
    /\ UNCHANGED <<w_slot, w_write, mpsc_write_pos_, mpsc_read_pos_,
                   mpsc_capacity_, feedVars, fanConsVars, notFanIn>>

\* MPSCRingBuffer::try_pop called by consumer_loop through
\* try_consume_message, one atomic access per step
\* read_pos_.load, write_pos_.load and the empty check
ConsumeLoad ==
    /\ gc_pc = "idle"
    /\ ~MpscEmpty(mpsc_read_pos_, mpsc_write_pos_)
    /\ gc_read' = mpsc_read_pos_
    /\ gc_pc' = "load_base"
    /\ UNCHANGED <<gc_slot, bench_messages_processed_, consumed, mpscVars,
                   feedVars, workerVars, notFanIn>>

\* slot = slots_[read_pos & mask_], member by member: base_slot
ConsumeLoadBase ==
    /\ gc_pc = "load_base"
    /\ gc_slot' = [gc_slot EXCEPT
                      !.base_slot = mpsc_slots_[MpscCellIndex(gc_read)].base_slot]
    /\ gc_pc' = "load_origin"
    /\ UNCHANGED <<gc_read, bench_messages_processed_, consumed, mpscVars,
                   feedVars, workerVars, notFanIn>>

\* origin_id and feed_sequence
ConsumeLoadOrigin ==
    /\ gc_pc = "load_origin"
    /\ gc_slot' = [gc_slot EXCEPT
                      !.origin_id = mpsc_slots_[MpscCellIndex(gc_read)].origin_id,
                      !.feed_sequence =
                          mpsc_slots_[MpscCellIndex(gc_read)].feed_sequence]
    /\ gc_pc' = "store_read"
    /\ UNCHANGED <<gc_read, bench_messages_processed_, consumed, mpscVars,
                   feedVars, workerVars, notFanIn>>

\* read_pos_.store; try_pop returns true and consumer_loop counts the slot
ConsumeStoreRead ==
    /\ gc_pc = "store_read"
    /\ mpsc_read_pos_' = UAdd(gc_read, 1)
    /\ bench_messages_processed_' = bench_messages_processed_ + 1
    /\ consumed' = Append(consumed, gc_slot)
    /\ gc_pc' = "idle"
    /\ UNCHANGED <<gc_read, gc_slot, mpsc_slots_, mpsc_write_pos_,
                   mpsc_capacity_, feedVars, workerVars, notFanIn>>

InitFanIn ==
    /\ capacity_ = MaxCapacity
    /\ slots_ = <<>> /\ write_pos_ = 0 /\ read_pos_ = 0
    /\ high_water_mark_ = 0
    /\ largest_size = 0
    /\ ThreadsIdle /\ ObsInit /\ BulkIdle /\ ParserAbsent /\ StatsAbsent
    /\ HistIdle /\ RunAbsent /\ BypassAbsent /\ FanInInit

NextFanIn ==
    \/ \E f \in Feeds, n \in FeedChunks : FeedIoRead(f, n)
    \/ \E f \in Feeds :
           \/ DrainPop(f)
           \/ MpscPushLoadWrite(f)
           \/ MpscPushLoadRead(f)
           \/ MpscPushCasOk(f)
           \/ MpscPushCasFail(f)
           \/ MpscPushStoreBase(f)
           \/ MpscPushStoreOrigin(f)
    \/ ConsumeLoad
    \/ ConsumeLoadBase
    \/ ConsumeLoadOrigin
    \/ ConsumeStoreRead

SpecFanIn == InitFanIn /\ [][NextFanIn]_vars

\* C19: a try_push returns false only when the global ring is full; in
\* particular a producer whose compare-and-swap lost against another
\* producer (write_pos_ has moved since it was loaded) does not return
\* false while the ring has a free cell.
C19_PushFailsOnlyWhenFull ==
    [][\A f \in DOMAIN w_pc :
           (/\ w_pc[f] \in {"load_read", "cas"}
            /\ f \in DOMAIN w_pc' /\ w_pc'[f] = "idle"
            /\ w_pc[f] = "cas" => mpsc_write_pos_ /= w_write[f])
               => MpscFull(mpsc_write_pos_, mpsc_read_pos_)]_vars

\* the records decoded from the byte stream of feed f
DecodedRecords(f) ==
    IF f \in Feeds
    THEN [j \in 1 .. Len(FeedStream(f)) \div RecordSize |->
             DecodeMsg(SubSeq(FeedStream(f), RecordSize * (j - 1) + 1,
                              RecordSize * j))]
    ELSE <<>>

\* the records the consumer got that carry origin_id o
ConsumedOf(o) ==
    LET slots == SelectSeq(consumed, LAMBDA slot : slot.origin_id = o)
    IN  [i \in 1 .. Len(slots) |-> slots[i].base_slot.raw]

\* a is b with some elements left out
RECURSIVE IsSubsequence(_, _)
IsSubsequence(a, b) ==
    IF a = <<>> THEN TRUE
    ELSE IF b = <<>> THEN FALSE
    ELSE IF Head(a) = Head(b) THEN IsSubsequence(Tail(a), Tail(b))
    ELSE IsSubsequence(a, Tail(b))

\* C10: for every origin_id, the records the consumer pops from the global
\* buffer with that origin_id are, in order, a subsequence of the records
\* decoded from that feed's byte stream.
C10_PerOriginOrder ==
    \A o \in Feeds \cup {consumed[i].origin_id : i \in DOMAIN consumed} :
        IsSubsequence(ConsumedOf(o), DecodedRecords(o))

\* the slot process_local_messages builds for record j of feed f
ForwardedSlot(f, j) ==
    MakeMultiFeedSlot([raw |-> DecodedRecords(f)[j], rx_ts |-> j], f,
                      DecodedRecords(f)[j].seq)

\* the slots the workers can pass to try_push
ForwardedSlots ==
    UNION {{ForwardedSlot(f, j) : j \in DOMAIN DecodedRecords(f)} : f \in Feeds}

\* C35: every slot the consumer got from try_pop is a slot a worker passed
\* to try_push, never the contents of a cell that was reserved and not
\* yet written, and no slot is got twice.
C35_PoppedWerePushed ==
    /\ \A i \in DOMAIN consumed : consumed[i] \in ForwardedSlots
    /\ \A i \in DOMAIN consumed, j \in DOMAIN consumed :
           consumed[i] = consumed[j] => i = j

\* C36: in the global ring write - read never exceeds the capacity, read
\* never exceeds write, and each successful compare-and-swap reserves the
\* position no other call has reserved: write_pos_ changes only by the
\* compare-and-swap of one producer, from the position that producer
\* loaded to the next, and two producers writing their cells never hold
\* the same position.
C36_MpscPositions ==
    /\ [](/\ USub(mpsc_write_pos_, mpsc_read_pos_) <= mpsc_capacity_
          /\ mpsc_read_pos_ <= mpsc_write_pos_
          /\ \A f \in DOMAIN w_pc, g \in DOMAIN w_pc :
                 (/\ f /= g
                  /\ w_pc[f] \in {"store_base", "store_origin"}
                  /\ w_pc[g] \in {"store_base", "store_origin"})
                     => w_write[f] /= w_write[g])
    /\ [][mpsc_write_pos_' /= mpsc_write_pos_ =>
              \E f \in DOMAIN w_pc :
                  /\ w_pc[f] = "cas" /\ w_pc'[f] = "store_base"
                  /\ w_write[f] = mpsc_write_pos_
                  /\ mpsc_write_pos_' = mpsc_write_pos_ + 1
                  /\ \A g \in DOMAIN w_pc \ {f} : w_pc'[g] = w_pc[g]]_vars

\* the global ring is full after the consumer has popped, both workers
\* have pushed, and a worker has reserved a cell while the other was
\* still writing its own
C36_Witness ==
    /\ USub(mpsc_write_pos_, mpsc_read_pos_) = mpsc_capacity_
    /\ mpsc_read_pos_ > 0
    /\ mpsc_capacity_ = 2
    /\ \A f \in Feeds : w_pc[f] \in {"store_base", "store_origin"}

(***************************************************************************)
(* The statistics counters of the two multi-threaded programs: the         *)
(* kernel-bypass benchmark (reception thread, and the main thread that     *)
(* consumes between start_ingestion and stop_ingestion) and the multi-feed *)
(* benchmark (I/O, worker, consumer and health monitor threads).  Every    *)
(* counter is changed by single atomic additions, so the threads are       *)
(* interleaved call by call.                                               *)
(***************************************************************************)
\* FeedConfig::heartbeat_interval_ms and timeout_multiplier
heartbeat_interval_ms == 1000
timeout_multiplier == 3

\* the milliseconds since the last message that check_health may find
ElapsedMs == {0, 2 * heartbeat_interval_ms + 1,
              heartbeat_interval_ms * timeout_multiplier + 1}

\* FeedMonitor::check_health when elapsed_ms have passed since the last
\* message
check_health_clearing(mon, elapsed_ms) ==
    IF elapsed_ms > heartbeat_interval_ms * timeout_multiplier
    THEN [mon EXCEPT !.status = "DEAD", !.messages_received = 0]
    ELSE mon
check_health(mon, elapsed_ms) ==
    IF mon.status = "HEALTHY" \/ mon.status = "DEGRADED"
    THEN IF elapsed_ms > heartbeat_interval_ms * timeout_multiplier
         THEN [mon EXCEPT !.status = "DEAD"]
         ELSE IF elapsed_ms > heartbeat_interval_ms * 2
              THEN [mon EXCEPT !.status = "DEGRADED"]
              ELSE mon
    ELSE mon

\* health_monitor_loop checks the health of worker f
CheckHealth(f, elapsed_ms) ==
    /\ f \in DOMAIN monitor_
    /\ monitor_' = [monitor_ EXCEPT ![f] = check_health(@, elapsed_ms)]
    /\ UNCHANGED <<feed_fed, feed_partial_buffer_, local_buffer_,
                   adapter_stats, mpscVars, workerVars, fanConsVars, notFanIn>>

\* the global buffer
MpscRing == [slots |-> mpsc_slots_, write |-> mpsc_write_pos_,
             read |-> mpsc_read_pos_]

\* MPSCRingBuffer::try_push as one call; cas_ok tells whether its
\* compare_exchange_weak succeeds
mpsc_try_push(r, slot, cas_ok) ==
    IF MpscFull(r.write, r.read) THEN [ok |-> FALSE, ring |-> r]
    ELSE IF ~cas_ok THEN [ok |-> FALSE, ring |-> r]
    ELSE [ok |-> TRUE,
          ring |-> [r EXCEPT !.write = UAdd(@, 1),
                             !.slots[MpscCellIndex(r.write)] = slot]]

\* MPSCRingBuffer::try_pop as one call
mpsc_try_pop(r) ==
    IF MpscEmpty(r.read, r.write)
    THEN [ok |-> FALSE, slot |-> DefaultMultiFeedSlot, ring |-> r]
    ELSE [ok |-> TRUE, slot |-> r.slots[MpscCellIndex(r.read)],
          ring |-> [r EXCEPT !.read = UAdd(@, 1)]]

\* one pass of the loop of process_local_messages of worker f, each call
\* in it taken as a whole
DrainPass(f, cas_ok) ==
    /\ f \in DOMAIN w_pc
    /\ w_pc[f] = "idle"
    /\ \E res \in {try_pop(local_buffer_[f])} :
           /\ res.ok
           /\ local_buffer_' = [local_buffer_ EXCEPT ![f] = res.ring]
           /\ monitor_' = [monitor_ EXCEPT
                              ![f] = record_message(@, res.slot.raw, RecordSize, now_ms)]
           /\ w_slot' = [w_slot EXCEPT
                            ![f] = MakeMultiFeedSlot(res.slot, f, res.slot.raw.seq)]
           /\ w_write' = [w_write EXCEPT ![f] = mpsc_write_pos_]
           /\ \E push \in {mpsc_try_push(
                               MpscRing,
                               MakeMultiFeedSlot(res.slot, f, res.slot.raw.seq),
                               cas_ok)} :
                  /\ mpsc_slots_' = push.ring.slots
                  /\ mpsc_write_pos_' = push.ring.write
                  /\ forwarded' = [forwarded EXCEPT
                                      ![f] = IF push.ok THEN @ + 1 ELSE @]
    /\ UNCHANGED <<feed_fed, feed_partial_buffer_, adapter_stats, w_pc,
                   mpsc_read_pos_, mpsc_capacity_, fanConsVars, notFanIn>>

\* one iteration of the multi-feed consumer_loop that gets a slot, the
\* call of try_pop taken as a whole
ConsumeMessage ==
    /\ gc_pc = "idle"
    /\ \E res \in {mpsc_try_pop(MpscRing)} :
           /\ res.ok
           /\ gc_read' = mpsc_read_pos_
           /\ gc_slot' = res.slot
           /\ mpsc_read_pos_' = res.ring.read
           /\ consumed' = Append(consumed, res.slot)
    /\ bench_messages_processed_' = bench_messages_processed_ + 1
    /\ UNCHANGED <<gc_pc, mpsc_slots_, mpsc_write_pos_, mpsc_capacity_,
                   feedVars, workerVars, notFanIn>>

\* one iteration of the consumer loop the bypass benchmark's main thread
\* runs between start_ingestion and stop_ingestion
BypassConsumerPop ==
    /\ m_pc = "ingesting"
    /\ ConsumerLoopPop
    /\ UNCHANGED runVars

\* what one iteration of the reception loop delivers in the runs of the
\* counters
SmallBursts == {[n |-> 1, recs |-> 1], [n |-> 2, recs |-> 4]}

InitCounters == InitPool \/ InitFanIn

NextCounters ==
    \/ StartIngestion
    \/ \E burst \in SmallBursts : ReceptionLoopBurst(burst)
    \/ ReceptionLoopExit
    \/ StopReception
    \/ StopIngestionReturn
    \/ BypassConsumerPop
    \/ \E f \in Feeds, n \in FeedChunks : FeedIoRead(f, n)
    \/ \E f \in Feeds, cas_ok \in BOOLEAN : DrainPass(f, cas_ok)
    \/ ConsumeMessage
    \/ \E f \in Feeds, elapsed_ms \in ElapsedMs : CheckHealth(f, elapsed_ms)

SpecCounters == InitCounters /\ [][NextCounters]_vars

\* the counters of a statistics object did not decrease
StatsNotDecreased(before, after) ==
    /\ after.received >= before.received
    /\ after.processed >= before.processed
    /\ after.dropped >= before.dropped
    /\ after.bytes >= before.bytes

\* the counters of a feed monitor did not decrease
MonitorNotDecreased(before, after) ==
    /\ after.messages_received >= before.messages_received
    /\ after.bytes_received >= before.bytes_received
    /\ after.sequence_gaps >= before.sequence_gaps

\* C8: from one state to the next no counter decreases: the driver's
\* packets_received and bytes_received, the IngestionStats counters
\* received, processed, dropped and bytes, and each feed's
\* messages_received, bytes_received and sequence_gaps.
C8_MonotonicCounters ==
    [][/\ packets_received_' >= packets_received_
       /\ client_bytes_received_' >= client_bytes_received_
       /\ messages_received_' >= messages_received_
       /\ messages_processed_' >= messages_processed_
       /\ messages_dropped_' >= messages_dropped_
       /\ bytes_received_' >= bytes_received_
       /\ \A f \in DOMAIN monitor_ :
              /\ MonitorNotDecreased(monitor_[f], monitor_'[f])
              /\ StatsNotDecreased(adapter_stats[f], adapter_stats'[f])]_vars

\* the worker, the consumer and the health monitor have acted on a feed
\* whose counters, the gap counter included, have all been increased
C8_Witness ==
    \E f \in DOMAIN monitor_ :
        /\ monitor_[f].messages_received > 1
        /\ monitor_[f].bytes_received > RecordSize
        /\ monitor_[f].sequence_gaps > 0
        /\ monitor_[f].status = "DEGRADED"
        /\ adapter_stats[f].received > 1
        /\ bench_messages_processed_ > 0

(***************************************************************************)
(* IngestionBenchmark::run: the main thread runs consumer_loop, stops the  *)
(* client, joins the I/O thread and drains the ring; the I/O thread runs   *)
(* NetworkClient::run_io_loop, whose read_some blocks until the peer sends *)
(* bytes or closes the connection.                                         *)
(***************************************************************************)
\* largest max_messages configured
MaxMessages == 2
\* seconds the run is followed for
MaxSeconds == 1

\* IngestionBenchmark::should_continue
should_continue ==
    /\ ~(max_seconds > 0 /\ elapsed_seconds >= max_seconds)
    /\ ~(max_messages > 0 /\ messages_processed_ >= max_messages)
    /\ socket_open

\* the head of the loop of run_io_loop
IoLoopHead ==
    /\ io_pc = "loop"
    /\ io_pc' = IF ~should_stop_ /\ socket_open THEN "read" ELSE "done"
    /\ UNCHANGED <<run_pc, should_stop_, socket_open, peer_closed,
                   max_messages, max_seconds, elapsed_seconds>>
    /\ UNCHANGED <<ringVars, parserVars, statsVars, ingestObs, pushed, popped,
                   notIngest>>

\* read_some returns n bytes, which are counted and parsed
IoLoopRead(n) ==
    /\ io_pc = "read"
    /\ RunIoLoopRead(n)
    /\ io_pc' = "loop"
    /\ UNCHANGED <<run_pc, should_stop_, socket_open, peer_closed,
                   max_messages, max_seconds, elapsed_seconds>>

\* read_some returns eof once the peer has closed and all bytes are read:
\* the loop is left, the socket is not closed
IoLoopEof ==
    /\ io_pc = "read"
    /\ peer_closed /\ fed = Len(stream.bytes)
    /\ io_pc' = "done"
    /\ UNCHANGED <<run_pc, should_stop_, socket_open, peer_closed,
                   max_messages, max_seconds, elapsed_seconds>>
    /\ UNCHANGED <<ringVars, parserVars, statsVars, ingestObs, pushed, popped,
                   notIngest>>

\* the peer closes the connection
PeerClose ==
    /\ run_pc /= "none" /\ ~peer_closed
    /\ peer_closed' = TRUE
    /\ UNCHANGED <<run_pc, io_pc, should_stop_, socket_open,
                   max_messages, max_seconds, elapsed_seconds>>
    /\ UNCHANGED <<ringVars, parserVars, statsVars, ingestObs, pushed, popped,
                   notIngest>>

\* a second passes on the clock of stats_.elapsed_seconds()
SecondPasses ==
    /\ run_pc /= "none" /\ elapsed_seconds < MaxSeconds
    /\ elapsed_seconds' = elapsed_seconds + 1
    /\ UNCHANGED <<run_pc, io_pc, should_stop_, socket_open, peer_closed,
                   max_messages, max_seconds>>
    /\ UNCHANGED <<ringVars, parserVars, statsVars, ingestObs, pushed, popped,
                   notIngest>>

\* an iteration of consumer_loop in which try_pop returns a slot
ConsumerLoopPass ==
    /\ run_pc = "consumer"
    /\ should_continue
    /\ ConsumerLoopPop
    /\ UNCHANGED runVars

\* should_continue returns false: consumer_loop returns and run calls
\* client_.stop()
ConsumerLoopEnd ==
    /\ run_pc = "consumer"
    /\ ~should_continue
    /\ should_stop_' = TRUE
    /\ run_pc' = "join"
    /\ UNCHANGED <<io_pc, socket_open, peer_closed,
                   max_messages, max_seconds, elapsed_seconds>>
    /\ UNCHANGED <<ringVars, parserVars, statsVars, ingestObs, pushed, popped,
                   notIngest>>

\* io_thread.join() returns once run_io_loop has returned
IoThreadJoinedEarly(pc) == TRUE
IoThreadJoined(pc) == pc = "done"

IoThreadJoin ==
    /\ run_pc = "join"
    /\ IoThreadJoined(io_pc)
    /\ run_pc' = "drain"
    /\ UNCHANGED <<io_pc, should_stop_, socket_open, peer_closed,
                   max_messages, max_seconds, elapsed_seconds>>
    /\ UNCHANGED <<ringVars, parserVars, statsVars, ingestObs, pushed, popped,
                   notIngest>>

\* an iteration of the drain loop of run
RunDrainPop ==
    /\ run_pc = "drain"
    /\ ConsumerLoopPop
    /\ UNCHANGED runVars

\* try_pop returns false in the drain loop: the statistics are printed and
\* run returns
RunDrainEnd ==
    /\ run_pc = "drain"
    /\ ~try_pop(Ring).ok
    /\ run_pc' = "returned"
    /\ UNCHANGED <<io_pc, should_stop_, socket_open, peer_closed,
                   max_messages, max_seconds, elapsed_seconds>>
    /\ UNCHANGED <<ringVars, parserVars, statsVars, ingestObs, pushed, popped,
                   notIngest>>

\* run after client_.connect() and the start of the I/O thread
InitRun ==
    /\ RingInitMsg /\ ThreadsIdle /\ ObsInit /\ BulkIdle
    /\ ParserInit /\ stream.id = 1
    /\ StatsInit /\ HistIdle /\ BypassAbsent /\ FanInAbsent
    /\ run_pc = "consumer" /\ io_pc = "loop"
    /\ should_stop_ = FALSE /\ socket_open = TRUE /\ peer_closed = FALSE
    /\ max_messages \in 0 .. MaxMessages
    /\ max_seconds \in 0 .. MaxSeconds
    /\ elapsed_seconds = 0

IoThreadStep ==
    \/ IoLoopHead
    \/ \E n \in {RecordSize, 2 * RecordSize, Len(stream.bytes) - fed} \ {0} :
           IoLoopRead(n)
    \/ IoLoopEof

MainThreadStep ==
    \/ ConsumerLoopPass
    \/ ConsumerLoopEnd
    \/ IoThreadJoin
    \/ RunDrainPop
    \/ RunDrainEnd

NextRun ==
    \/ IoThreadStep
    \/ MainThreadStep
    \/ PeerClose
    \/ SecondPasses

SpecRun == InitRun /\ [][NextRun]_vars

\* both threads are scheduled and time passes; the peer is not obliged to
\* send or to close
FairRun ==
    /\ SpecRun
    /\ WF_vars(IoThreadStep) /\ WF_vars(MainThreadStep) /\ WF_vars(SecondPasses)

\* C11: once stop has been requested (client_.stop() has set the flag), the
\* I/O thread observes it and terminates, the join completes and run
\* returns, whatever the peer does: no byte and no close from the peer is
\* needed.
C11_StopTerminates == should_stop_ ~> (run_pc = "returned")

\* C12: with max_messages = M > 0 (and no time limit) and a feed of at least
\* M records, when run returns the I/O thread has been joined,
\* messages_processed is exactly M and messages_received is at least M.
C12_ExactLimit ==
    (/\ run_pc = "returned"
     /\ max_messages > 0 /\ max_seconds = 0
     /\ Len(stream.bytes) \div RecordSize >= max_messages) =>
        /\ io_pc = "done"
        /\ messages_processed_ = max_messages
        /\ messages_received_ >= max_messages

\* C13: when run returns the I/O thread has been joined, the ring is empty
\* and the slots passed to record_message_processed are the slots pushed,
\* each once and in order: messages_processed = messages_received = the
\* number of successful pushes.
C13_DrainedAtReturn ==
    run_pc = "returned" =>
        /\ io_pc = "done"
        /\ size(Ring) = 0
        /\ popped = pushed
        /\ messages_processed_ = Len(pushed)
        /\ messages_processed_ = messages_received_

\* run has returned after consumer_loop ended at one processed message and
\* the drain loop processed the others
C13_Witness ==
    /\ run_pc = "returned"
    /\ max_messages = 1 /\ max_seconds = 0
    /\ Len(pushed) >= 2
    /\ popped = pushed

\* C14: with max_seconds = 0 and max_messages = 0, run returns after the
\* peer has closed the connection.
C14_ReturnsAfterClose ==
    (peer_closed /\ max_seconds = 0 /\ max_messages = 0) ~> (run_pc = "returned")

(***************************************************************************)
(* The health monitor of the fan-in dispatcher: each pass of               *)
(* health_monitor_loop calls check_health on every worker's monitor in     *)
(* configuration order and then promote_backup_feeds, while the workers    *)
(* go on recording messages and the clock advances.                        *)
(***************************************************************************)
\* heartbeat intervals the clock is followed for
MaxTicks == 7

\* from_cli_feeds: the first feed is the primary, the others are backups
is_primary(f) == f = 0

\* FeedMonitor::is_healthy
is_healthy(mon) == mon.status = "HEALTHY" \/ mon.status = "DEGRADED"

\* FanInDispatcher::promote_backup_feeds: the feeds it names as promoted
promote_backup_feeds(mons) ==
    IF \E f \in Feeds : is_primary(f) /\ is_healthy(mons[f])
    THEN {}
    ELSE {f \in Feeds :
             /\ ~is_primary(f) /\ is_healthy(mons[f])
             /\ \A g \in Feeds :
                    (~is_primary(g) /\ is_healthy(mons[g])) => f <= g}

\* a heartbeat interval passes on the steady clock
TimePasses ==
    /\ hm_pc >= 0
    /\ now_ms < MaxTicks * heartbeat_interval_ms
    /\ now_ms' = now_ms + heartbeat_interval_ms
    /\ UNCHANGED <<hm_pc, health_age, promoted, hm_current, mpscVars, feedVars,
                   workerVars, fanConsVars, outsideFanIn>>

\* health_monitor_loop calls check_health on the next worker's monitor
HealthMonitorCheck ==
    /\ hm_pc \in Feeds
    /\ monitor_' =
           [monitor_ EXCEPT
               ![hm_pc] = check_health(@, now_ms - @.last_message_time)]
    /\ health_age' =
           [health_age EXCEPT
               ![hm_pc] = now_ms - monitor_[hm_pc].last_message_time]
    /\ hm_pc' = hm_pc + 1
    /\ UNCHANGED <<now_ms, promoted, hm_current, feed_fed, feed_partial_buffer_,
                   local_buffer_, adapter_stats, mpscVars, workerVars,
                   fanConsVars, outsideFanIn>>

\* health_monitor_loop calls promote_backup_feeds and sleeps
HealthMonitorPromote ==
    /\ hm_pc = Cardinality(Feeds)
    /\ promoted' = promote_backup_feeds(monitor_)
    /\ hm_pc' = 0
    /\ UNCHANGED <<now_ms, health_age, hm_current, mpscVars, feedVars,
                   workerVars, fanConsVars, outsideFanIn>>

NextHealth ==
    \/ \E f \in Feeds, n \in FeedChunks : FeedIoRead(f, n)
    \/ \E f \in Feeds : DrainPass(f, TRUE)
    \/ TimePasses
    \/ HealthMonitorCheck
    \/ HealthMonitorPromote

SpecHealth == InitFanIn /\ [][NextHealth]_vars

\* C15: after check_health has found the age of a feed, the feed is Dead if
\* the age exceeds heartbeat_interval * timeout_multiplier, and otherwise
\* Degraded if the age exceeds heartbeat_interval * 2.
C15_HealthThresholds ==
    \A f \in DOMAIN health_age :
        health_age[f] >= 0 =>
            IF health_age[f] > heartbeat_interval_ms * timeout_multiplier
            THEN monitor_[f].status = "DEAD"
            ELSE health_age[f] > heartbeat_interval_ms * 2 =>
                     monitor_[f].status = "DEGRADED"

\* C16: after a pass of the health monitor in which no primary feed is
\* Healthy or Degraded, the feed marked as effective primary is the first
\* backup feed whose status is Healthy (none if there is none); with the
\* primary silent for longer than the timeout and the backup Healthy, the
\* primary is Dead and the backup is the effective primary.
C16_FailoverMarking ==
    (hm_pc = 0 /\ \A f \in DOMAIN health_age : health_age[f] >= 0) =>
        /\ (~\E f \in Feeds : is_primary(f) /\ is_healthy(monitor_[f])) =>
               promoted =
                   {f \in Feeds :
                       /\ ~is_primary(f) /\ monitor_[f].status = "HEALTHY"
                       /\ \A g \in Feeds :
                              (~is_primary(g) /\ monitor_[g].status = "HEALTHY")
                                  => f <= g}
        /\ (/\ health_age[0] > heartbeat_interval_ms * timeout_multiplier
            /\ monitor_[1].status = "HEALTHY") =>
               (monitor_[0].status = "DEAD" /\ promoted = {1})

\* C24: a check_health that finds a Degraded feed with an age of at most
\* heartbeat_interval leaves it Healthy.
C24_DegradedRecovers ==
    [][\A f \in Feeds :
           (/\ hm_pc = f /\ hm_pc' = f + 1
            /\ monitor_[f].status = "DEGRADED"
            /\ health_age'[f] <= heartbeat_interval_ms)
               => monitor_'[f].status = "HEALTHY"]_vars

C20_DrainDropCounted ==
    \A f \in DOMAIN forwarded :
        monitor_[f].messages_received =
            forwarded[f] + adapter_stats[f].dropped

(***************************************************************************)
(* The reference driver (BoostAsioBypassClient) called directly: connect,  *)
(* start_reception, stop_reception and disconnect in any order, from one   *)
(* calling thread, while the reception thread runs its loop.               *)
(***************************************************************************)
\* number of direct calls followed
MaxDriverCalls == 4

\* the handlers passed to start_reception: an empty std::function and two
\* callable ones
Handlers == {NULL, 1, 2}

\* BoostAsioBypassClient::is_connected
is_connected == asio_socket_open

\* BoostAsioBypassClient::connect
DriverConnect ==
    /\ m_pc = "idle" /\ ~asio_socket_open
    /\ asio_socket_open' = TRUE
    /\ UNCHANGED <<packet_handler_, reception_threads,
                   driver_calls>>
    /\ UNCHANGED <<backend, running_, rx_pc, packets_received_,
                   client_bytes_received_, delivered, release_calls, bursts,
                   poolVars, ringVars, parserVars, statsVars, ingestObs,
                   pushed, notBypass>>

\* if (!handler || running_.load()) return;
StartReturnsEarlyOnEmpty(handler) == handler = NULL
StartReturnsEarly(handler) == handler = NULL \/ running_

\* BoostAsioBypassClient::start_reception
StartReception(handler) ==
    /\ m_pc \in {"idle", "ingesting", "stopped"}
    /\ Len(driver_calls) < MaxDriverCalls
    /\ driver_calls' = Append(driver_calls, "start")
    /\ IF StartReturnsEarly(handler)
       THEN UNCHANGED <<packet_handler_, running_, rx_pc, reception_threads,
                        m_pc>>
       ELSE /\ packet_handler_' = handler
            /\ running_' = TRUE
            /\ rx_pc' = "loop"
            /\ reception_threads' = reception_threads + 1
            /\ m_pc' = "ingesting"
    /\ UNCHANGED asio_socket_open
    /\ UNCHANGED <<backend, packets_received_, client_bytes_received_,
                   delivered, release_calls, bursts, poolVars_but_pc,
                   ringVars, parserVars, statsVars, ingestObs, pushed,
                   notBypass>>

\* BoostAsioBypassClient::stop_reception, called directly or as the first
\* statement of disconnect, up to its join
StopReceptionCall(call) ==
    /\ m_pc \in {"idle", "ingesting", "stopped"}
    /\ Len(driver_calls) < MaxDriverCalls
    /\ driver_calls' = Append(driver_calls, call)
    /\ running_' = FALSE
    /\ m_pc' = IF call = "stop" THEN "join_stop" ELSE "join_disconnect"
    /\ UNCHANGED <<packet_handler_, reception_threads,
                   asio_socket_open>>
    /\ UNCHANGED <<backend, rx_pc, packets_received_,
                   client_bytes_received_, delivered, release_calls, bursts,
                   poolVars_but_pc, ringVars, parserVars, statsVars,
                   ingestObs, pushed, notBypass>>

\* the join returns if there was a thread to join; stop_reception returns,
\* and disconnect goes on to asio_client_->stop(), which sets a flag and
\* leaves the socket as it is
StopReceptionReturn ==
    /\ m_pc \in {"join_stop", "join_disconnect"}
    /\ rx_pc \in {"none", "done"}
    /\ rx_pc' = "none"
    /\ reception_threads' = IF rx_pc = "done" THEN reception_threads - 1
                            ELSE reception_threads
    /\ m_pc' = IF m_pc = "join_stop" THEN "stopped" ELSE "disconnected"
    /\ UNCHANGED <<packet_handler_, driver_calls, asio_socket_open>>
    /\ UNCHANGED <<backend, running_, packets_received_,
                   client_bytes_received_, delivered, release_calls, bursts,
                   poolVars_but_pc, ringVars, parserVars, statsVars,
                   ingestObs, pushed, notBypass>>

\* the reference driver after initialize(): not connected, not receiving
InitDriver ==
    /\ RingInitMsg /\ ThreadsIdle /\ ObsInit /\ BulkIdle
    /\ stream = [id |-> 1, bytes |-> <<>>]
    /\ fed = 0 /\ partial_buffer_ = <<>> /\ split_seen = 0
    /\ clock = 1 /\ emitted = <<>>
    /\ StatsInit /\ HistIdle /\ RunAbsent /\ FanInAbsent
    /\ BypassInit /\ backend = "asio" /\ asio_socket_open = FALSE

NextDriver ==
    \/ DriverConnect
    \/ \E handler \in Handlers : StartReception(handler)
    \/ \E call \in {"stop", "disconnect"} : StopReceptionCall(call)
    \/ StopReceptionReturn
    \/ \E burst \in SmallBursts : ReceptionLoopBurst(burst)
    \/ ReceptionLoopExit

SpecDriver == InitDriver /\ [][NextDriver]_vars

\* C17: a start_reception made while reception is running starts no thread
\* and leaves the installed handler; a stop_reception made while no
\* reception thread exists changes nothing of the driver; and there is
\* never more than one reception thread.
C17_IdempotentStartStop ==
    [][/\ (running_ /\ running_') =>
              UNCHANGED <<packet_handler_, reception_threads, rx_pc>>
       /\ (rx_pc = "none" /\ ~running_ /\ ~running_') =>
              UNCHANGED <<packet_handler_, reception_threads, rx_pc>>
       /\ reception_threads' <= 1
       /\ (rx_pc' = "none") = (reception_threads' = 0)]_vars

\* start_reception has been called twice in a row, the second time with
\* another handler, and then stop_reception twice in a row; the reception
\* thread started by the first call has been joined and the first handler
\* is the one installed
C17_Witness ==
    /\ driver_calls = <<"start", "start", "stop", "stop">>
    /\ m_pc = "stopped"
    /\ reception_threads = 0
    /\ packet_handler_ = 1
    /\ packets_received_ > 0

\* C18: once disconnect has returned, the reception thread has terminated
\* and been joined and is_connected() returns false.
C18_DisconnectTerminal ==
    m_pc = "disconnected" =>
        /\ rx_pc = "none" /\ reception_threads = 0
        /\ ~is_connected

(***************************************************************************)
(* The start of the feed workers: each worker thread connects its client   *)
(* at the head of worker_loop; a connect that throws takes the thread to   *)
(* the catch clause.  The benchmark's consumer loop runs beside them.      *)
(***************************************************************************)
\* FeedMonitor::record_connection_established
record_connection_established(mon) == [mon EXCEPT !.status = "HEALTHY"]

\* FeedMonitor::record_connection_failed
record_connection_failed(mon) == [mon EXCEPT !.status = "FAILED"]

\* MultiFeedIngestionBenchmark::should_continue
mf_should_continue_while_no_feed_failed ==
    \A f \in DOMAIN monitor_ : monitor_[f].status /= "FAILED"
mf_should_continue ==
    /\ ~(max_seconds > 0 /\ elapsed_seconds >= max_seconds)
    /\ ~(max_messages > 0 /\ bench_messages_processed_ >= max_messages)

\* worker_loop of feed f up to the start of its I/O thread: connect
\* returns or throws
WorkerConnect(f, connected) ==
    /\ f \in DOMAIN worker_pc
    /\ worker_pc[f] = "connect"
    /\ monitor_' = [monitor_ EXCEPT
                       ![f] = IF connected
                              THEN record_connection_established(@)
                              ELSE record_connection_failed(@)]
    /\ worker_pc' = [worker_pc EXCEPT
                        ![f] = IF connected THEN "running" ELSE "failed"]
    /\ UNCHANGED <<feed_fed, feed_partial_buffer_, local_buffer_,
                   adapter_stats, mpscVars, workerVars, fanConsVars,
                   healthVars, ringVars, prodVars, consVars, obsVars,
                   bulkVars, parserVars, statsVars, ingestObs, histVars,
                   bypassVars, runVars, blockVars,
                   reconnectVars, feedLifeVars>>

\* the I/O thread of a worker that has connected
WorkerIoRead(f, n) ==
    /\ f \in DOMAIN worker_pc
    /\ worker_pc[f] = "running"
    /\ FeedIoRead(f, n)

\* the loop of worker_loop of a worker that has connected
WorkerDrainPass(f) ==
    /\ f \in DOMAIN worker_pc
    /\ worker_pc[f] = "running"
    /\ DrainPass(f, TRUE)

\* one iteration of MultiFeedIngestionBenchmark::consumer_loop that gets
\* a slot
BenchConsume ==
    /\ mf_should_continue
    /\ ConsumeMessage

InitStart ==
    /\ capacity_ = MaxCapacity
    /\ slots_ = <<>> /\ write_pos_ = 0 /\ read_pos_ = 0
    /\ high_water_mark_ = 0
    /\ largest_size = 0
    /\ ThreadsIdle /\ ObsInit /\ BulkIdle /\ ParserAbsent /\ StatsAbsent
    /\ HistIdle /\ RunAbsent /\ BypassAbsent
    /\ FanInStarted(MonitorConstructed, "connect")

NextStart ==
    \/ \E f \in Feeds, connected \in BOOLEAN : WorkerConnect(f, connected)
    \/ \E f \in Feeds, n \in FeedChunks : WorkerIoRead(f, n)
    \/ \E f \in Feeds : WorkerDrainPass(f)
    \/ BenchConsume

SpecStart == InitStart /\ [][NextStart]_vars

\* every thread that can take a step eventually takes one
FairStart ==
    /\ SpecStart
    /\ \A f \in Feeds :
           /\ WF_vars(\E n \in FeedChunks : WorkerIoRead(f, n))
           /\ WF_vars(WorkerDrainPass(f))
    /\ WF_vars(BenchConsume)

\* C21: a worker whose connect failed has status Failed and has read and
\* forwarded nothing; and whenever one worker has failed and another is
\* running, the running worker goes on to read its whole feed and drain
\* its local ring, and the consumer goes on to empty the global ring and to
\* count every forwarded record.
C21_FailedFeedIsolated ==
    /\ [](\A f \in Feeds :
              worker_pc[f] = "failed" =>
                  /\ monitor_[f].status = "FAILED"
                  /\ feed_fed[f] = 0 /\ forwarded[f] = 0)
    /\ \A f \in Feeds, g \in Feeds :
           (worker_pc[f] = "failed" /\ worker_pc[g] = "running")
               ~> /\ feed_fed[g] = Len(FeedStream(g))
                  /\ size(local_buffer_[g]) = 0
                  /\ MpscEmpty(mpsc_read_pos_, mpsc_write_pos_)
                  /\ bench_messages_processed_ = forwarded[g]

\* the primary's connect failed, the backup connected, and the consumer
\* has counted the backup's record
C21_Witness ==
    /\ worker_pc = (0 :> "failed" @@ 1 :> "running")
    /\ monitor_[0].status = "FAILED"
    /\ forwarded[1] = BackupRecords
    /\ bench_messages_processed_ = BackupRecords
    /\ consumed /= <<>> /\ consumed[1].origin_id = 1

\* C25: a feed's status is Connecting as long as no record of it has been
\* recorded, also after its connection is established, and is no longer
\* Connecting once a record has been recorded.
C25_ConnectingUntilFirstRecord ==
    \A f \in DOMAIN worker_pc :
        worker_pc[f] \in {"connect", "running"} =>
            ((monitor_[f].status = "CONNECTING")
                 = (monitor_[f].messages_received = 0))

(***************************************************************************)
(* try_push_or_block: one producer calls it, in Drop or in Block mode,     *)
(* while the consumer pops and the clock runs.                             *)
(***************************************************************************)
\* calls of try_push_or_block followed
MaxBlockCalls == 2
\* longest timeout_ns given, and the time the clock runs
MaxTimeout == 2
MaxBlockClock == 3
\* the pushes a call has tried are counted up to this number
MaxTries == 2

\* what the back-pressure specification leaves alone
notBlock == <<prodVars, consVars, bulkVars, parserVars, statsVars, emitted,
              histVars, bypassVars, fanVars, runVars, reconnectVars, feedLifeVars>>

\* if (timeout_ns > 0) { ... if (elapsed_ns >= timeout_ns) return false; }
TimedOutAlsoUnlimited(timeout_ns, elapsed_ns) == elapsed_ns >= timeout_ns
TimedOut(timeout_ns, elapsed_ns) == timeout_ns > 0 /\ elapsed_ns >= timeout_ns

\* try_push_or_block is called: in Drop mode it goes to its single push,
\* in Block mode it reads start_time
BlockEnter(mode, timeout_ns) ==
    /\ block_call.pc = "idle"
    /\ calls < MaxBlockCalls
    /\ block_call' = [pc |-> IF mode = "DROP" THEN "drop" ELSE "try",
                      mode |-> mode, timeout_ns |-> timeout_ns,
                      start_time |-> IF mode = "DROP" THEN 0 ELSE clock,
                      tries |-> 0, ret |-> FALSE]
    /\ calls' = calls + 1
    /\ UNCHANGED <<ringVars, pushed, popped, rejected, clock, notBlock>>

\* one try_push_with_prefetch of the call: in Drop mode its result is
\* returned; in Block mode true is returned, and false leads to the
\* timeout check
BlockTryPush ==
    /\ block_call.pc \in {"drop", "try"}
    /\ \E res \in {try_push(Ring, MakeSlot(calls, calls))} :
           /\ SetRing(res.ring)
           /\ pushed' = IF res.ok THEN Append(pushed, MakeSlot(calls, calls))
                        ELSE pushed
           /\ block_call' =
                  [block_call EXCEPT
                      !.tries = IF @ < MaxTries THEN @ + 1 ELSE @,
                      !.ret = res.ok,
                      !.pc = IF res.ok \/ block_call.pc = "drop"
                             THEN "returned" ELSE "check"]
    /\ UNCHANGED <<popped, calls, rejected, clock, notBlock>>

\* the timeout check after a failed push: return false, or yield and try
\* again
BlockCheckTimeout ==
    /\ block_call.pc = "check"
    /\ block_call' =
           [block_call EXCEPT
               !.pc = IF TimedOut(block_call.timeout_ns,
                                  clock - block_call.start_time)
                      THEN "returned" ELSE "try"]
    /\ UNCHANGED <<ringVars, obsVars, clock, notBlock>>

\* the caller has the result and may call again
BlockReturn ==
    /\ block_call.pc = "returned"
    /\ block_call' = [block_call EXCEPT !.pc = "idle"]
    /\ rejected' = IF block_call.ret THEN rejected ELSE rejected + 1
    /\ UNCHANGED <<ringVars, pushed, popped, calls, clock, notBlock>>

\* a nanosecond passes on the high-resolution clock
BlockClockTick ==
    /\ clock < MaxBlockClock
    /\ clock' = clock + 1
    /\ UNCHANGED <<ringVars, obsVars, blockVars, notBlock>>

NextBlock ==
    \/ \E mode \in {"DROP", "BLOCK"}, timeout_ns \in 0 .. MaxTimeout :
           BlockEnter(mode, timeout_ns)
    \/ BlockTryPush
    \/ BlockCheckTimeout
    \/ BlockReturn
    \/ BlockClockTick
    \/ SinglePop

SpecBlock == InitBulk /\ [][NextBlock]_vars

\* the producer inside try_push_or_block eventually takes its next step
FairBlock ==
    SpecBlock /\ WF_vars(BlockTryPush) /\ WF_vars(BlockCheckTimeout)

\* C28: a call in Drop mode makes one try_push, returns its result and
\* never reaches the timeout check; a call in Block mode with timeout 0
\* never returns false, and returns true once the ring has a free cell; a
\* call in Block mode with a timeout > 0 that returns false returns it
\* when at least the timeout has passed since its start, after pushes that
\* all failed.
C28_PushOrBlock ==
    /\ [][(block_call.pc = "drop" /\ block_call'.pc /= "drop") =>
              /\ block_call'.pc = "returned"
              /\ block_call'.tries = 1
              /\ block_call'.ret = ~RingFull(write_pos_, read_pos_)
              /\ Len(pushed') = Len(pushed) + (IF block_call'.ret THEN 1 ELSE 0)
         ]_vars
    /\ [](block_call.mode = "DROP" => block_call.pc \notin {"try", "check"})
    /\ []((block_call.pc = "returned" /\ block_call.mode = "BLOCK"
              /\ ~block_call.ret) =>
              /\ block_call.timeout_ns > 0
              /\ clock - block_call.start_time >= block_call.timeout_ns
              /\ block_call.tries >= 1)
    /\ (/\ block_call.pc \in {"try", "check"}
        /\ block_call.timeout_ns = 0
        /\ ~RingFull(write_pos_, read_pos_))
           ~> (block_call.pc = "returned" /\ block_call.ret)

\* a call in Block mode with timeout 0 found the ring full, waited while
\* the clock ran past every timeout, and returned true after the consumer
\* had popped
C28_Witness ==
    /\ block_call.pc = "returned" /\ block_call.mode = "BLOCK"
    /\ block_call.timeout_ns = 0 /\ block_call.ret
    /\ block_call.tries >= 2
    /\ clock - block_call.start_time > MaxTimeout
    /\ popped /= <<>>

(***************************************************************************)
(* BoostAsioBypassClient::reception_loop with its connection handling: the *)
(* initial connect, the reads and the reconnection after a loss, beside a  *)
(* caller of start_reception, stop_reception and disconnect.  The steady   *)
(* clock is in milliseconds.                                               *)
(***************************************************************************)
\* the last value of the steady clock followed
MaxReconnectMs == 2000

\* const auto reconnect_interval = std::chrono::seconds(1)
reconnect_interval_ms == 1000
\* std::this_thread::sleep_for(std::chrono::milliseconds(100))
retry_sleep_ms == 100

\* what a call of connect_to_server leaves: the connect succeeded; it failed
\* with an error code, the socket staying open; or it threw before the
\* socket was opened
ConnectOutcomes ==
    {[connected |-> TRUE, socket |-> "open"],
     [connected |-> FALSE, socket |-> "open"],
     [connected |-> FALSE, socket |-> "closed"]}

\* what socket->read_some reports
ReadOutcomes == {"would_block", "eof", "error", "throws", "data"}

\* if (!connected || !socket || !socket->is_open())
NeedsReconnect(rl) == ~rl.connected \/ rl.socket = "null" \/ rl.socket /= "open"

\* if (now - last_reconnect_attempt >= reconnect_interval)
ReconnectDueAlways(now, last_reconnect_attempt) == TRUE
ReconnectDue(now, last_reconnect_attempt) ==
    now - last_reconnect_attempt >= reconnect_interval_ms

\* what the reception loop leaves alone when it handles its connection
notReconnect == <<ringVars, prodVars, consVars, obsVars, bulkVars, parserVars,
                  statsVars, ingestObs, histVars, backend, running_,
                  packets_received_, client_bytes_received_, delivered,
                  release_calls, bursts, lifeVars, poolVars, mpscVars,
                  feedVars, workerVars, fanConsVars, hm_pc, health_age,
                  promoted, hm_current, startVars, runVars, blockVars,
                  feedLifeVars>>

\* bool connected = connect_to_server();
RlInitialConnect(outcome) ==
    /\ rx_pc = "loop"
    /\ rloop.pc = "entry"
    /\ rloop' = [rloop EXCEPT !.pc = "connected_once",
                              !.connected = outcome.connected,
                              !.socket = outcome.socket,
                              !.attempts = 1,
                              !.attempt_at = now_ms]
    /\ UNCHANGED <<rx_pc, now_ms, notReconnect>>

\* auto last_reconnect_attempt = std::chrono::steady_clock::now();
RlMarkInitial ==
    /\ rx_pc = "loop"
    /\ rloop.pc = "connected_once"
    /\ rloop' = [rloop EXCEPT !.pc = "loop", !.last_reconnect_attempt = now_ms]
    /\ UNCHANGED <<rx_pc, now_ms, notReconnect>>

\* an iteration that finds the connection missing and the interval over:
\* connect_to_server is called again
RlReconnect(outcome) ==
    /\ rx_pc = "loop" /\ running_
    /\ rloop.pc = "loop"
    /\ NeedsReconnect(rloop)
    /\ ReconnectDue(now_ms, rloop.last_reconnect_attempt)
    /\ rloop' = [rloop EXCEPT
                    !.connected = outcome.connected,
                    !.socket = outcome.socket,
                    !.last_reconnect_attempt = now_ms,
                    !.attempts = @ + 1,
                    !.attempt_at = now_ms,
                    !.packets_at_reconnect =
                        IF outcome.connected THEN packets_received_ ELSE @]
    /\ UNCHANGED <<rx_pc, now_ms, notReconnect>>

\* an iteration that finds the connection missing and the interval not
\* over: it sleeps and starts over
RlWaitBeforeRetry ==
    /\ rx_pc = "loop" /\ running_
    /\ rloop.pc = "loop"
    /\ NeedsReconnect(rloop)
    /\ ~ReconnectDue(now_ms, rloop.last_reconnect_attempt)
    /\ now_ms + retry_sleep_ms <= MaxReconnectMs
    /\ now_ms' = now_ms + retry_sleep_ms
    /\ UNCHANGED <<rx_pc, rloop, notReconnect>>

\* an iteration with a connection whose read_some delivers nothing: no data
\* yet, or the end of the stream, an error or an exception, after which the
\* socket is closed
RlReadNothing(outcome) ==
    /\ rx_pc = "loop" /\ running_
    /\ rloop.pc = "loop"
    /\ ~NeedsReconnect(rloop)
    /\ outcome /= "data"
    /\ rloop' = IF outcome = "would_block" THEN rloop
                ELSE [rloop EXCEPT !.connected = FALSE, !.socket = "closed"]
    /\ UNCHANGED <<rx_pc, now_ms, notReconnect>>

\* an iteration with a connection whose read_some delivers a packet
RlReadData(burst) ==
    /\ rloop.pc = "loop"
    /\ ~NeedsReconnect(rloop)
    /\ ReceptionLoopBurst(burst)

\* while (running_.load()) finds the flag cleared: the thread ends and its
\* locals with it
RlExit ==
    /\ rloop.pc = "loop"
    /\ rloop' = NoReceptionLoop
    /\ rx_pc = "loop"
    /\ ~running_
    /\ rx_pc' = "done"
    /\ UNCHANGED <<now_ms, notReconnect>>

\* time passes
RlClockAdvance(ms) ==
    /\ now_ms + ms <= MaxReconnectMs
    /\ now_ms' = now_ms + ms
    /\ UNCHANGED <<rx_pc, rloop, notReconnect>>

NextReconnect ==
    \/ StartReception(1)
    \/ StopReceptionCall("stop")
    \/ StopReceptionReturn
    \/ \E outcome \in ConnectOutcomes : RlInitialConnect(outcome)
    \/ RlMarkInitial
    \/ \E outcome \in ConnectOutcomes : RlReconnect(outcome)
    \/ RlWaitBeforeRetry
    \/ \E outcome \in ReadOutcomes : RlReadNothing(outcome)
    \/ RlReadData([n |-> 1, recs |-> 1])
    \/ RlExit
    \/ RlClockAdvance(reconnect_interval_ms)

\* the reference driver with the largest ring and without zero-copy
InitReconnect == InitDriver /\ capacity_ = MaxCapacity /\ ~enable_zero_copy

SpecReconnect == InitReconnect /\ [][NextReconnect]_vars

\* the reception thread keeps running
FairReconnect ==
    /\ SpecReconnect
    /\ WF_vars(\E outcome \in ConnectOutcomes : RlReconnect(outcome))
    /\ WF_vars(RlWaitBeforeRetry)

\* C31: while reception is running and the connection is lost, the driver
\* keeps calling connect_to_server until a call succeeds or stop_reception
\* is called: the thread ends only with running_ cleared and every call that
\* leaves the connection missing is followed by another; two consecutive
\* calls are at least one second apart; and a successful reconnect leaves
\* the loop in the state in which it reads packets.
C31_ReconnectBackoff ==
    /\ [][(rx_pc = "loop" /\ rx_pc' /= "loop") => ~running_]_vars
    /\ [][(rloop'.attempts > rloop.attempts /\ rloop.attempts > 0) =>
              rloop'.attempt_at - rloop.attempt_at >= 1000]_vars
    /\ [][(rloop'.attempts > rloop.attempts /\ rloop'.connected) =>
              ~NeedsReconnect(rloop')]_vars
    /\ \A n \in 1 .. MaxReconnectMs \div 1000 :
           (/\ running_ /\ rx_pc = "loop" /\ rloop.pc = "loop"
            /\ NeedsReconnect(rloop)
            /\ rloop.attempts = n
            /\ rloop.last_reconnect_attempt + 1000 <= MaxReconnectMs)
               ~> (rloop.attempts > n \/ ~running_)

\* the connection was lost, a first reconnect failed, a second one a second
\* later succeeded, and a packet has been received since
C31_Witness ==
    /\ running_ /\ rx_pc = "loop"
    /\ rloop.attempts = 3
    /\ rloop.connected
    /\ rloop.packets_at_reconnect > 0
    /\ packets_received_ > rloop.packets_at_reconnect

(***************************************************************************)
(* The life of a FeedWorker: start and stop called by the dispatcher's     *)
(* thread, the worker thread in worker_loop and the I/O thread it starts.  *)
(***************************************************************************)
\* number of start calls followed per worker
MaxStarts == 2

\* what the life of the workers leaves alone
notLife == <<feed_fed, feed_partial_buffer_, local_buffer_, adapter_stats,
             mpscVars, workerVars, fanConsVars, healthVars, ringVars, prodVars,
             consVars, obsVars, bulkVars, parserVars, statsVars, ingestObs,
             histVars, bypassVars, runVars, blockVars, reconnectVars>>

\* worker_thread_ = std::thread(...): the move assignment to a std::thread
\* that is joinable calls std::terminate
AssignNeverTerminates(joinable) == FALSE
AssignTerminates(joinable) == joinable

\* std::terminate: no thread of the process is left
Terminated ==
    /\ fw' = [g \in Feeds |->
                 [fw[g] EXCEPT !.ctl = "terminated", !.worker_threads = 0,
                               !.io_threads = 0, !.io_pc = "none"]]
    /\ worker_pc' = [g \in Feeds |-> "none"]

\* FeedWorker::start
FwStart(f) ==
    /\ f \in DOMAIN fw
    /\ fw[f].ctl = "idle"
    /\ fw[f].starts < MaxStarts
    /\ IF AssignTerminates(fw[f].joinable)
       THEN Terminated
       ELSE /\ fw' = [fw EXCEPT ![f].should_stop_ = FALSE,
                                ![f].joinable = TRUE,
                                ![f].worker_threads = @ + 1,
                                ![f].starts = @ + 1,
                                ![f].stopped = FALSE]
            /\ worker_pc' = [worker_pc EXCEPT ![f] = "connect"]
    /\ UNCHANGED <<monitor_, notLife>>

\* FeedWorker::stop up to the join
FwStop(f) ==
    /\ f \in DOMAIN fw
    /\ fw[f].ctl = "idle"
    /\ fw' = [fw EXCEPT ![f].should_stop_ = TRUE,
                        ![f].client_should_stop_ = TRUE,
                        ![f].ctl = IF fw[f].joinable THEN "joining" ELSE "idle",
                        ![f].stopped = ~fw[f].joinable]
    /\ UNCHANGED <<worker_pc, monitor_, notLife>>

\* the join in FeedWorker::stop returns, and stop with it
FwStopReturn(f) ==
    /\ f \in DOMAIN fw
    /\ fw[f].ctl = "joining"
    /\ worker_pc[f] \in {"done", "failed"}
    /\ fw' = [fw EXCEPT ![f].ctl = "idle", ![f].joinable = FALSE,
                        ![f].worker_threads = @ - 1, ![f].stopped = TRUE]
    /\ worker_pc' = [worker_pc EXCEPT ![f] = "none"]
    /\ UNCHANGED <<monitor_, notLife>>

\* worker_loop up to its loop: connect returns and the I/O thread is
\* started, or connect throws and the catch clause ends the thread
LifeConnect(f, connected) ==
    /\ f \in DOMAIN fw
    /\ worker_pc[f] = "connect"
    /\ monitor_' = [monitor_ EXCEPT
                       ![f] = IF connected
                              THEN record_connection_established(@)
                              ELSE record_connection_failed(@)]
    /\ worker_pc' = [worker_pc EXCEPT
                        ![f] = IF connected THEN "running" ELSE "failed"]
    /\ fw' = IF connected
             THEN [fw EXCEPT ![f].io_threads = @ + 1, ![f].io_pc = "running"]
             ELSE fw
    /\ UNCHANGED <<notLife>>

\* while (!should_stop_.load())
LifeLoopTest(f) ==
    /\ f \in DOMAIN fw
    /\ worker_pc[f] = "running"
    /\ worker_pc' = [worker_pc EXCEPT
                        ![f] = IF fw[f].should_stop_ THEN "stopping"
                               ELSE "draining"]
    /\ UNCHANGED <<fw, monitor_, notLife>>

\* process_local_messages finds a record in the local ring
LifeDrainPop(f) ==
    /\ f \in DOMAIN fw
    /\ worker_pc[f] = "draining"
    /\ DrainPass(f, TRUE)

\* process_local_messages finds the local ring empty and returns; the
\* worker sleeps
LifeDrainEnd(f) ==
    /\ f \in DOMAIN fw
    /\ worker_pc[f] = "draining"
    /\ ~try_pop(local_buffer_[f]).ok
    /\ worker_pc' = [worker_pc EXCEPT ![f] = "running"]
    /\ UNCHANGED <<fw, monitor_, notLife>>

\* client_->stop() after the loop
LifeStopClient(f) ==
    /\ f \in DOMAIN fw
    /\ worker_pc[f] = "stopping"
    /\ fw' = [fw EXCEPT ![f].client_should_stop_ = TRUE]
    /\ worker_pc' = [worker_pc EXCEPT ![f] = "join_io"]
    /\ UNCHANGED <<monitor_, notLife>>

\* io_thread.join() returns and worker_loop with it
LifeJoinIo(f) ==
    /\ f \in DOMAIN fw
    /\ worker_pc[f] = "join_io"
    /\ fw[f].io_pc = "done"
    /\ fw' = [fw EXCEPT ![f].io_threads = @ - 1, ![f].io_pc = "none"]
    /\ worker_pc' = [worker_pc EXCEPT ![f] = "done"]
    /\ UNCHANGED <<monitor_, notLife>>

\* an iteration of run_io_loop in the I/O thread that finds should_stop_
\* clear and reads n bytes
LifeIoRead(f, n) ==
    /\ f \in DOMAIN fw
    /\ fw[f].io_pc = "running"
    /\ ~fw[f].client_should_stop_
    /\ FeedIoRead(f, n)

\* run_io_loop ends: should_stop_ is set, or the read reports the end of
\* the stream or an error
LifeIoEnd(f) ==
    /\ f \in DOMAIN fw
    /\ fw[f].io_pc = "running"
    /\ fw' = [fw EXCEPT ![f].io_pc = "done"]
    /\ UNCHANGED <<worker_pc, monitor_, notLife>>

\* the dispatcher after its constructor: the workers exist, no thread runs
InitLife ==
    /\ capacity_ = MaxCapacity
    /\ slots_ = <<>> /\ write_pos_ = 0 /\ read_pos_ = 0
    /\ high_water_mark_ = 0
    /\ largest_size = 0
    /\ ThreadsIdle /\ ObsInit /\ BulkIdle /\ ParserAbsent /\ StatsAbsent
    /\ HistIdle /\ RunAbsent /\ BypassAbsent
    /\ FanInStarted(MonitorConstructed, "none")

NextLife ==
    \/ \E f \in Feeds : FwStart(f)
    \/ \E f \in Feeds : FwStop(f)
    \/ \E f \in Feeds : FwStopReturn(f)
    \/ \E f \in Feeds, connected \in BOOLEAN : LifeConnect(f, connected)
    \/ \E f \in Feeds : LifeLoopTest(f)
    \/ \E f \in Feeds : LifeDrainPop(f)
    \/ \E f \in Feeds : LifeDrainEnd(f)
    \/ \E f \in Feeds : LifeStopClient(f)
    \/ \E f \in Feeds : LifeJoinIo(f)
    \/ \E f \in Feeds, n \in FeedChunks : LifeIoRead(f, n)
    \/ \E f \in Feeds : LifeIoEnd(f)

SpecLife == InitLife /\ [][NextLife]_vars

\* C39: after FeedWorker::stop has returned, the worker's local ring holds
\* no record: every record pushed into it was popped by the drain and
\* forwarded or dropped.
C39_NothingStranded ==
    \A f \in DOMAIN fw :
        fw[f].stopped => size(local_buffer_[f]) = 0

\* the three places where threads are attached to an SPSC ring: a feed
\* worker, IngestionBenchmark::run, and the reference driver's
\* start_reception / stop_reception
InitThreads == InitLife \/ InitRun \/ InitDriver

NextThreads ==
    \/ NextLife
    \/ run_pc /= "none" /\ NextRun
    \/ backend /= "none" /\ NextDriver

SpecThreads == InitThreads /\ [][NextThreads]_vars

MaxStatusTicks == 4

\* check_health up to FeedStatus current = status_.load()
HmCheckLoad ==
    /\ hm_pc \in Feeds
    /\ hm_current = "none"
    /\ health_age' =
           [health_age EXCEPT
               ![hm_pc] = now_ms - monitor_[hm_pc].last_message_time]
    /\ hm_current' = monitor_[hm_pc].status
    /\ UNCHANGED <<now_ms, hm_pc, promoted, mpscVars, feedVars, workerVars,
                   fanConsVars, outsideFanIn>>

\* the rest of check_health: the store its tests select, if any, made on
\* the status the monitor has by now
HmCheckStore ==
    /\ hm_pc \in Feeds
    /\ hm_current /= "none"
    /\ LET loaded == [monitor_[hm_pc] EXCEPT !.status = hm_current]
           after == check_health(loaded, health_age[hm_pc])
           stores == /\ is_healthy(loaded)
                     /\ health_age[hm_pc] > heartbeat_interval_ms * 2
       IN  monitor_' = IF stores
                       THEN [monitor_ EXCEPT ![hm_pc].status = after.status]
                       ELSE monitor_
    /\ hm_current' = "none"
    /\ hm_pc' = hm_pc + 1
    /\ UNCHANGED <<now_ms, health_age, promoted, feed_fed,
                   feed_partial_buffer_, local_buffer_, adapter_stats,
                   mpscVars, workerVars, fanConsVars, outsideFanIn>>

NextStatus ==
    \/ \E f \in Feeds, connected \in BOOLEAN : WorkerConnect(f, connected)
    \/ \E f \in Feeds, n \in FeedChunks : WorkerIoRead(f, n)
    \/ \E f \in Feeds : WorkerDrainPass(f)
    \/ now_ms < MaxStatusTicks * heartbeat_interval_ms /\ TimePasses
    \/ HmCheckLoad
    \/ HmCheckStore
    \/ HealthMonitorPromote

SpecStatus == InitStart /\ [][NextStatus]_vars

\* C37: a feed whose status is Dead or Failed has the same status after
\* every step of its worker's run: a record counted by record_message and a
\* check_health made afterwards leave it.
C37_DeadAndFailedStay ==
    [][\A f \in DOMAIN monitor_ :
           monitor_[f].status \in {"DEAD", "FAILED"} =>
               monitor_'[f].status = monitor_[f].status]_vars

\* a feed was found Dead, a record of it was counted afterwards, and the
\* next check_health found it fresh and left it Dead; the other feed has
\* failed to connect and has been checked
C37_Witness ==
    \E f \in DOMAIN monitor_, g \in DOMAIN monitor_ :
        /\ monitor_[f].status = "DEAD"
        /\ monitor_[f].messages_received > 0
        /\ health_age[f] >= 0 /\ health_age[f] <= heartbeat_interval_ms * 2
        /\ hm_current = "none"
        /\ monitor_[g].status = "FAILED"
        /\ health_age[g] >= 0

(***************************************************************************)
(* The counters of the single-feed pipeline with the I/O thread and the    *)
(* consumer interleaved inside process_complete_message and inside an      *)
(* iteration of consumer_loop: the ring operation and the fetch_add on the *)
(* counter are two steps of a thread.                                      *)
(***************************************************************************)
\* what these steps leave alone
notCount == <<prodVars, c_pc, c_read, c_write, bulkVars, calls, rejected,
              histVars, bypassVars, fanVars, blockVars, reconnectVars,
              feedLifeVars, stream, partial_buffer_, split_seen,
              should_stop_, socket_open, peer_closed, max_messages,
              max_seconds, elapsed_seconds>>

\* read_some returns the bytes of one record, which are counted; in
\* process_complete_message the slot is built and try_push called
PcmTryPush ==
    /\ io_pc = "read"
    /\ fed + RecordSize <= Len(stream.bytes)
    /\ LET msg == DecodeMsg(SubSeq(stream.bytes, fed + 1, fed + RecordSize))
           slot == MakeSlot(msg, clock)
           res == try_push(Ring, slot)
       IN  /\ SetRing(res.ring)
           /\ pushed' = IF res.ok THEN Append(pushed, slot) ELSE pushed
           /\ emitted' = Append(emitted, msg)
           /\ io_pc' = IF res.ok THEN "count_received" ELSE "count_dropped"
    /\ SetStats(record_bytes_received(Stats, RecordSize))
    /\ fed' = fed + RecordSize
    /\ clock' = clock + 1
    /\ UNCHANGED <<run_pc, c_slot, popped, notCount>>

\* the branch of process_complete_message on the result of try_push
PcmCount ==
    /\ io_pc \in {"count_received", "count_dropped"}
    /\ SetStats(IF io_pc = "count_received"
                THEN record_message_received(Stats)
                ELSE record_message_dropped(Stats))
    /\ io_pc' = "loop"
    /\ UNCHANGED <<ringVars, fed, clock, emitted, pushed, run_pc, c_slot,
                   popped, notCount>>

\* if (ring_.try_pop(slot)) in consumer_loop, try_pop returning true
ConsumerTryPop ==
    /\ run_pc = "consumer"
    /\ should_continue
    /\ \E res \in {try_pop(Ring)} :
           /\ res.ok
           /\ SetRing(res.ring)
           /\ c_slot' = res.slot
           /\ popped' = Append(popped, res.slot)
    /\ run_pc' = "count_processed"
    /\ UNCHANGED <<statsVars, fed, clock, emitted, pushed, io_pc, notCount>>

\* stats_.record_message_processed(slot)
ConsumerCount ==
    /\ run_pc = "count_processed"
    /\ SetStats(record_message_processed(Stats, c_slot, clock))
    /\ clock' = clock + 1
    /\ run_pc' = "consumer"
    /\ UNCHANGED <<ringVars, fed, emitted, pushed, popped, c_slot, io_pc,
                   notCount>>

\* run after the start of the I/O thread, with no limit set
InitCount == InitRun /\ max_messages = 0 /\ max_seconds = 0

NextCount ==
    \/ IoLoopHead
    \/ PcmTryPush
    \/ PcmCount
    \/ ConsumerTryPop
    \/ ConsumerCount

SpecCount == InitCount /\ [][NextCount]_vars

\* C38: in the single-feed pipeline messages_processed never exceeds
\* messages_received.
C38_ProcessedAtMostReceived == messages_processed_ <= messages_received_

====
